---- MODULE Spec2Model ----
(***************************************************************************)
(* feedme: the relational store (ingredients, recipes, recipe_ingredients), *)
(* the controllers that read and write it (create_ingredient,              *)
(* get_all_ingredients, create_recipe, get_recipe, generate_shopping_list)  *)
(* and the recipe importer that persists a finished wizard context.         *)
(*                                                                          *)
(* Strings are sequences of character codes, so that ordering (ORDER BY,    *)
(* sort_by), concatenation (join) and emptiness are computed, not assumed.  *)
(* Option<T> is the empty sequence (None) or a one-element sequence (Some). *)
(* The created_at columns are timestamps no operation reads back into a     *)
(* decision; they are left out.                                             *)
(***************************************************************************)
EXTENDS Integers, Sequences, FiniteSets, TLC

VARIABLES
    ingredients,         \* committed rows of table ingredients, in insertion order
    recipes,             \* committed rows of table recipes
    recipe_ingredients,  \* committed rows of table recipe_ingredients (link rows)
    tx,                  \* the create_recipe call in flight and its open transaction
    ret,                 \* the controller call that returned last: op, arg, value
                         \* (none once a create_recipe call has begun)
    app,                 \* the importer process: position in main, snapshot, context
    created,             \* history: the input of every committed create_recipe, by recipe id
    reader               \* a client that reads while others write: its call in flight
                         \* or the value its last call returned

vars == <<ingredients, recipes, recipe_ingredients, tx, ret, app, created, reader>>

(***************************************************************************)
(* Bounds                                                                   *)
(***************************************************************************)
MaxIngredients == 2
MaxRecipes == 2
MaxLinks == 2
MaxIds == 2
\* the characters a wizard input buffer is filled with
MaxInput == 1
\* the instruction steps entered in the wizard
MaxSteps == 2
\* the lines and answers submitted in one wizard session
MaxEntered == 11

(***************************************************************************)
(* Strings                                                                  *)
(***************************************************************************)
None == <<>>

Some(v) == <<v>>

IsSome(o) == Len(o) = 1

\* byte-wise lexicographic order: Rust's String::cmp and SQLite's BINARY collation
StrLess(a, b) ==
    \/ /\ Len(a) < Len(b)
       /\ \A i \in 1..Len(a) : a[i] = b[i]
    \/ \E i \in 1..Len(a) :
          /\ i <= Len(b)
          /\ a[i] < b[i]
          /\ \A j \in 1..(i - 1) : a[j] = b[j]

RECURSIVE Join(_, _)
\* [String]::join(sep)
Join(parts, sep) ==
    IF Len(parts) = 0 THEN <<>>
    ELSE IF Len(parts) = 1 THEN parts[1]
    ELSE parts[1] \o sep \o Join(Tail(parts), sep)

\* " + "
PlusSep == <<32, 43, 32>>

\* "\n"
Newline == <<10>>

\* ingredient names "a", "b"
Names == {<<97>>, <<98>>}

\* quantity_unit and notes of the links clients create: "2" without notes, "3" with "x"
Payloads ==
    {[quantity_unit |-> <<50>>, notes |-> None],
     [quantity_unit |-> <<51>>, notes |-> Some(<<120>>)]}

\* name and instructions of the recipes clients create: "P" without, "W" with "m"
Heads ==
    {[name |-> <<80>>, instructions |-> None],
     [name |-> <<87>>, instructions |-> Some(<<109>>)]}

(***************************************************************************)
(* Results                                                                  *)
(***************************************************************************)
Ok(v) == [ok |-> TRUE, v |-> v]

\* FeedMeError::Database(sqlx::Error); cause: "unique" (constraint) or "storage"
ErrDatabase(cause) == [ok |-> FALSE, err |-> "Database", cause |-> cause]

\* FeedMeError::RecipeNotFound(id)
ErrRecipeNotFound(id) == [ok |-> FALSE, err |-> "RecipeNotFound", cause |-> id]

NoRet == [op |-> "none"]

(***************************************************************************)
(* Tables                                                                   *)
(***************************************************************************)
\* INTEGER PRIMARY KEY of an insert-only table: one more than the rows it holds
NextId(table) == Len(table) + 1

Rows(table) == {table[i] : i \in 1..Len(table)}

HasName(table, name) == \E i \in 1..Len(table) : table[i].name = name

\* FilterSeq(s, keep): the subsequence of s whose indices satisfy keep
RECURSIVE SelectIdx(_, _, _)
SelectIdx(s, K, i) ==
    IF i > Len(s) THEN <<>>
    ELSE IF i \in K THEN <<s[i]>> \o SelectIdx(s, K, i + 1)
    ELSE SelectIdx(s, K, i + 1)

\* a stable sort of s by the strict order Less: ORDER BY, slice::sort_by
SortBy(s, Less(_, _)) ==
    LET before(i) == {j \in 1..Len(s) :
                        \/ Less(s[j], s[i])
                        \/ (~Less(s[i], s[j]) /\ j < i)}
    IN [k \in 1..Len(s) |-> s[CHOOSE i \in 1..Len(s) : Cardinality(before(i)) = k - 1]]

\* the orders in which a HashMap may hand out the elements of S
Orders(S) ==
    {p \in [1..Cardinality(S) -> S] : \A x \in S : \E k \in 1..Cardinality(S) : p[k] = x}

Range(s) == {s[i] : i \in 1..Len(s)}

NoTx == [pc |-> "none"]

\* the reading client between calls, before its first
ReaderIdle == [pc |-> "idle"]

(***************************************************************************)
(* create_ingredient                                                        *)
(***************************************************************************)
\* mutant: the statement overwrites the last row instead of adding one
InsertIngredientOverLast(table, name) ==
    IF Len(table) = 0 THEN <<[id |-> 1, name |-> name]>>
    ELSE [table EXCEPT ![Len(table)] = [id |-> Len(table), name |-> name]]

\* INSERT INTO ingredients (name) VALUES (?): the row the statement adds
InsertIngredient(table, name) ==
    Append(table, [id |-> NextId(table), name |-> name])

\* mutant: ingredients.name carries no UNIQUE constraint
NoUniqueConstraint(table, name) == FALSE

\* the statement fails on the UNIQUE constraint of ingredients.name
UniqueViolation(table, name) == HasName(table, name)

\* mutant: INSERT OR IGNORE, the id of the row of that name returned
create_ingredient_or_ignore(table, name) ==
    IF UniqueViolation(table, name)
    THEN [table |-> table,
          val |-> Ok((CHOOSE r \in Rows(table) : r.name = name).id)]
    ELSE [table |-> InsertIngredient(table, name), val |-> Ok(NextId(table))]

\* create_ingredient(pool, name): the table afterwards and the value returned
create_ingredient(table, name) ==
    IF UniqueViolation(table, name)
    THEN [table |-> table, val |-> ErrDatabase("unique")]
    ELSE [table |-> InsertIngredient(table, name), val |-> Ok(NextId(table))]

\* a write statement waits while another connection holds the write lock
WriteLocked == tx.pc \in {"links"}

\* a controller call of any client of the pool
CreateIngredient(name) ==
    /\ ~WriteLocked
    /\ UniqueViolation(ingredients, name) \/ Len(ingredients) < MaxIngredients
    /\ LET r == create_ingredient(ingredients, name) IN
          /\ ingredients' = r.table
          /\ ret' = [op |-> "create_ingredient", arg |-> name, val |-> r.val]
    /\ UNCHANGED <<recipes, recipe_ingredients, tx, app, created, reader>>

(***************************************************************************)
(* create_recipe: one step per awaited statement; the transaction's writes  *)
(* are pending rows, invisible to the pool's other connections until COMMIT *)
(***************************************************************************)
\* INSERT INTO recipes (name, instructions) VALUES (?, ?)
RecipeRow(id, recipe) ==
    [id |-> id, name |-> recipe.name, instructions |-> recipe.instructions]

\* mutant: the binds of recipe_id and ingredient_id are swapped
LinkRowSwapped(id, recipe_id, ingredient) ==
    [id |-> id, recipe_id |-> ingredient.ingredient_id,
     ingredient_id |-> recipe_id,
     quantity_unit |-> ingredient.quantity_unit,
     notes |-> ingredient.notes]

\* INSERT INTO recipe_ingredients (recipe_id, ingredient_id, quantity_unit, notes)
LinkRow(id, recipe_id, ingredient) ==
    [id |-> id, recipe_id |-> recipe_id,
     ingredient_id |-> ingredient.ingredient_id,
     quantity_unit |-> ingredient.quantity_unit,
     notes |-> ingredient.notes]

\* tx.commit(): the pending rows join the committed table
CommitRows(table, pending) == table \o pending

\* mutant: the statements run on the pool, each committed on its own
RollbackKeepsRows(table, pending) == table \o pending

\* the Transaction is dropped without commit (an early return by ?): ROLLBACK
RollbackRows(table, pending) == table

\* pool.begin()
create_recipe_begin(caller, recipe) ==
    /\ tx = NoTx
    /\ Len(recipes) < MaxRecipes
    /\ Len(recipe_ingredients) + Len(recipe.ingredients) <= MaxLinks
    /\ tx' = [pc |-> "begun", caller |-> caller, recipe |-> recipe, recipe_id |-> 0,
              recipe_rows |-> <<>>, link_rows |-> <<>>]
    /\ ret' = NoRet
    /\ UNCHANGED <<ingredients, recipes, recipe_ingredients, created>>

\* a controller call of any client of the pool
CreateRecipe(recipe) ==
    /\ create_recipe_begin("api", recipe)
    /\ UNCHANGED <<app, reader>>

\* the recipe row is inserted and last_insert_rowid() read
create_recipe_insert_recipe ==
    /\ tx.pc = "begun"
    /\ LET id == NextId(recipes) IN
          tx' = [tx EXCEPT !.pc = "links", !.recipe_id = id,
                           !.recipe_rows = <<RecipeRow(id, tx.recipe)>>]
    /\ UNCHANGED <<ingredients, recipes, recipe_ingredients, ret, app, created, reader>>

\* one turn of the loop over recipe.ingredients
create_recipe_insert_link ==
    /\ tx.pc = "links"
    /\ Len(tx.link_rows) < Len(tx.recipe.ingredients)
    /\ LET ingredient == tx.recipe.ingredients[Len(tx.link_rows) + 1]
           id == NextId(recipe_ingredients \o tx.link_rows)
       IN tx' = [tx EXCEPT !.link_rows = Append(@, LinkRow(id, tx.recipe_id, ingredient))]
    /\ UNCHANGED <<ingredients, recipes, recipe_ingredients, ret, app, created, reader>>

\* what main does with the value create_recipe returned to it
MainAfterCreateRecipe(val) ==
    IF tx.caller = "main"
    THEN app' = [app EXCEPT !.pc = IF val.ok THEN "done" ELSE "error"]
    ELSE app' = app

\* the loop is over: tx.commit() and Ok(recipe_id)
create_recipe_commit ==
    /\ tx.pc = "links"
    /\ Len(tx.link_rows) = Len(tx.recipe.ingredients)
    /\ recipes' = CommitRows(recipes, tx.recipe_rows)
    /\ recipe_ingredients' = CommitRows(recipe_ingredients, tx.link_rows)
    /\ ret' = [op |-> "create_recipe", arg |-> tx.recipe.name, val |-> Ok(tx.recipe_id),
               inserted |-> Len(tx.recipe_rows) + Len(tx.link_rows)]
    /\ created' = Append(created, tx.recipe)
    /\ MainAfterCreateRecipe(Ok(tx.recipe_id))
    /\ tx' = NoTx
    /\ UNCHANGED <<ingredients, reader>>

\* an awaited statement (begin, an insert, commit) returns Err: ? returns it
create_recipe_fail ==
    /\ tx.pc \in {"begun", "links"}
    /\ recipes' = RollbackRows(recipes, tx.recipe_rows)
    /\ recipe_ingredients' = RollbackRows(recipe_ingredients, tx.link_rows)
    /\ ret' = [op |-> "create_recipe", arg |-> tx.recipe.name, val |-> ErrDatabase("storage"),
               inserted |-> Len(tx.recipe_rows) + Len(tx.link_rows)]
    /\ MainAfterCreateRecipe(ErrDatabase("storage"))
    /\ tx' = NoTx
    /\ UNCHANGED <<ingredients, created, reader>>

(***************************************************************************)
(* get_recipe                                                               *)
(***************************************************************************)
\* ... FROM recipe_ingredients ri JOIN ingredients i ON ri.ingredient_id = i.id:
\* the catalog rows a link row joins with (at most one: id is the primary key)
JoinedIngredients(catalog, link) ==
    {i \in Rows(catalog) : i.id = link.ingredient_id}

\* WHERE ri.recipe_id = ?: the indices of the link rows get_recipe selects
RecipeLinkIdx(catalog, links, recipe_id) ==
    {k \in 1..Len(links) :
        /\ links[k].recipe_id = recipe_id
        /\ JoinedIngredients(catalog, links[k]) # {}}

\* the row mapped to a RecipeIngredient
JoinedRow(catalog, link) ==
    LET i == CHOOSE i \in JoinedIngredients(catalog, link) : TRUE IN
    [ingredient_id |-> i.id, ingredient_name |-> i.name,
     quantity_unit |-> link.quantity_unit, notes |-> link.notes]

\* ORDER BY ri.id
LinkIdLess(x, y) == x.id < y.id

\* ORDER BY i.name
JoinedNameLess(x, y) == StrLess(x.ingredient_name, y.ingredient_name)

\* mutant: the joined rows ordered by ingredient name
RecipeIngredientsByName(catalog, links, recipe_id) ==
    LET sel == SelectIdx(links, RecipeLinkIdx(catalog, links, recipe_id), 1)
    IN SortBy([k \in 1..Len(sel) |-> JoinedRow(catalog, sel[k])], JoinedNameLess)

\* the joined rows of one recipe, ordered, each mapped to a RecipeIngredient
RecipeIngredientsOf(catalog, links, recipe_id) ==
    LET sel == SortBy(SelectIdx(links, RecipeLinkIdx(catalog, links, recipe_id), 1),
                      LinkIdLess)
    IN [k \in 1..Len(sel) |-> JoinedRow(catalog, sel[k])]

\* mutant: the recipe is fetched by the JOIN, so a recipe without rows is not found
get_recipe_by_join(catalog, recs, links, recipe_id) ==
    IF \/ \A r \in Rows(recs) : r.id # recipe_id
       \/ RecipeLinkIdx(catalog, links, recipe_id) = {}
    THEN ErrRecipeNotFound(recipe_id)
    ELSE LET recipe == CHOOSE r \in Rows(recs) : r.id = recipe_id IN
         Ok([id |-> recipe.id, name |-> recipe.name,
             instructions |-> recipe.instructions,
             ingredients |-> RecipeIngredientsOf(catalog, links, recipe_id)])

\* get_recipe(pool, recipe_id): the value returned
get_recipe(catalog, recs, links, recipe_id) ==
    IF \A r \in Rows(recs) : r.id # recipe_id
    THEN ErrRecipeNotFound(recipe_id)
    ELSE LET recipe == CHOOSE r \in Rows(recs) : r.id = recipe_id IN
         Ok([id |-> recipe.id, name |-> recipe.name,
             instructions |-> recipe.instructions,
             ingredients |-> RecipeIngredientsOf(catalog, links, recipe_id)])

\* a controller call of any client of the pool
GetRecipe(recipe_id) ==
    /\ ret' = [op |-> "get_recipe", arg |-> recipe_id,
               val |-> get_recipe(ingredients, recipes, recipe_ingredients, recipe_id)]
    /\ UNCHANGED <<ingredients, recipes, recipe_ingredients, tx, app, created, reader>>

(***************************************************************************)
(* generate_shopping_list                                                   *)
(***************************************************************************)
\* WHERE ri.recipe_id IN (?, ...): the indices of the link rows selected
ShoppingLinkIdx(catalog, links, recipe_ids) ==
    {k \in 1..Len(links) :
        /\ links[k].recipe_id \in Range(recipe_ids)
        /\ JoinedIngredients(catalog, links[k]) # {}}

\* SELECT i.name as ingredient_name, ri.quantity_unit (ri.id kept for the order)
ShoppingRow(catalog, link) ==
    LET i == CHOOSE i \in JoinedIngredients(catalog, link) : TRUE IN
    [ingredient_name |-> i.name, quantity_unit |-> link.quantity_unit, id |-> link.id]

\* mutant: ORDER BY i.name, ri.id DESC
NameThenIdDesc(x, y) ==
    \/ StrLess(x.ingredient_name, y.ingredient_name)
    \/ (x.ingredient_name = y.ingredient_name /\ x.id > y.id)

\* ORDER BY i.name, ri.id
NameThenIdLess(x, y) ==
    \/ StrLess(x.ingredient_name, y.ingredient_name)
    \/ (x.ingredient_name = y.ingredient_name /\ x.id < y.id)

\* mutant: one query per recipe id, in the order of the slice
RECURSIVE ShoppingRowsPerId(_, _, _)
ShoppingRowsPerId(catalog, links, recipe_ids) ==
    IF Len(recipe_ids) = 0 THEN <<>>
    ELSE LET sel == SelectIdx(links, ShoppingLinkIdx(catalog, links, <<Head(recipe_ids)>>), 1)
         IN SortBy([k \in 1..Len(sel) |-> ShoppingRow(catalog, sel[k])], NameThenIdLess)
            \o ShoppingRowsPerId(catalog, links, Tail(recipe_ids))

\* fetch_all: the rows the query returns, in the order it returns them
ShoppingRows(catalog, links, recipe_ids) ==
    LET sel == SelectIdx(links, ShoppingLinkIdx(catalog, links, recipe_ids), 1)
    IN SortBy([k \in 1..Len(sel) |-> ShoppingRow(catalog, sel[k])], NameThenIdLess)

\* ingredient_map.entry(name).or_insert_with(Vec::new).push(quantity_unit):
\* the Vec the map holds for a name once every row has been pushed
RECURSIVE GroupQuantities(_, _)
GroupQuantities(rows, name) ==
    IF Len(rows) = 0 THEN <<>>
    ELSE IF rows[1].ingredient_name = name
         THEN <<rows[1].quantity_unit>> \o GroupQuantities(Tail(rows), name)
         ELSE GroupQuantities(Tail(rows), name)

\* the keys of ingredient_map
MapKeys(rows) == {rows[k].ingredient_name : k \in 1..Len(rows)}

\* ShoppingListItem { ingredient_name, combined_quantity: quantities.join(" + ") }
ShoppingItem(rows, name) ==
    [ingredient_name |-> name,
     combined_quantity |-> Join(GroupQuantities(rows, name), PlusSep)]

\* a.ingredient_name.cmp(&b.ingredient_name)
ItemNameLess(a, b) == StrLess(a.ingredient_name, b.ingredient_name)

\* mutant: the items in the order the map hands them out
UnsortedShoppingList(items) == items

\* shopping_list.sort_by(...)
SortShoppingList(items) == SortBy(items, ItemNameLess)

\* mutant: an id without a link row makes the list empty
generate_shopping_list_known_only(catalog, links, recipe_ids, order) ==
    IF Len(recipe_ids) = 0 THEN <<>>
    ELSE IF \E k \in 1..Len(recipe_ids) :
               \A l \in Rows(links) : l.recipe_id # recipe_ids[k]
    THEN <<>>
    ELSE LET rows == ShoppingRows(catalog, links, recipe_ids) IN
         SortShoppingList([k \in 1..Len(order) |-> ShoppingItem(rows, order[k])])

\* generate_shopping_list(pool, recipe_ids); order is the order in which
\* ingredient_map.into_iter() hands out its entries
generate_shopping_list(catalog, links, recipe_ids, order) ==
    IF Len(recipe_ids) = 0 THEN <<>>
    ELSE LET rows == ShoppingRows(catalog, links, recipe_ids) IN
         SortShoppingList([k \in 1..Len(order) |-> ShoppingItem(rows, order[k])])

\* the iteration orders the HashMap of this call may have
MapOrders(catalog, links, recipe_ids) ==
    IF Len(recipe_ids) = 0 THEN {<<>>}
    ELSE Orders(MapKeys(ShoppingRows(catalog, links, recipe_ids)))

\* mutant: no early return, the query is run with an empty IN list
ShoppingQueriesAlways(recipe_ids) == 1

\* the statements a call sends to the pool: none when recipe_ids.is_empty() returns
\* early, else the one fetch_all
ShoppingQueries(recipe_ids) == IF Len(recipe_ids) = 0 THEN 0 ELSE 1

\* a controller call of any client of the pool
GenerateShoppingList(recipe_ids) ==
    /\ \E order \in MapOrders(ingredients, recipe_ingredients, recipe_ids) :
          ret' = [op |-> "generate_shopping_list", arg |-> recipe_ids,
                  val |-> Ok(generate_shopping_list(ingredients, recipe_ingredients,
                                                    recipe_ids, order)),
                  queries |-> ShoppingQueries(recipe_ids)]
    /\ UNCHANGED <<ingredients, recipes, recipe_ingredients, tx, app, created, reader>>

(***************************************************************************)
(* A reading client beside the writers: its statements run on connections   *)
(* of the pool, the writes of create_recipe on the transaction's connection *)
(***************************************************************************)
\* the rows the transaction in flight has written and not committed
TxRecipeRows == IF tx.pc = "none" THEN <<>> ELSE tx.recipe_rows

TxLinkRows == IF tx.pc = "none" THEN <<>> ELSE tx.link_rows

\* mutant: the pool's connections read what the transaction has written so far
VisibleUncommitted(table, pending) == table \o pending

\* what a statement executed on the pool sees of a table the transaction has
\* written to with execute(&mut *tx): the committed rows
VisibleRows(table, pending) == table

\* get_recipe, first statement: fetch_optional on recipes, ok_or(RecipeNotFound)
get_recipe_fetch_recipe(recipe_id) ==
    /\ reader.pc \in {"idle", "done"}
    /\ LET recs == VisibleRows(recipes, TxRecipeRows) IN
       reader' = IF \A r \in Rows(recs) : r.id # recipe_id
                 THEN [pc |-> "done", op |-> "get_recipe", arg |-> recipe_id,
                       val |-> ErrRecipeNotFound(recipe_id), rows |-> <<>>]
                 ELSE [pc |-> "ingredients", op |-> "get_recipe", arg |-> recipe_id,
                       recipe |-> CHOOSE r \in Rows(recs) : r.id = recipe_id]
    /\ UNCHANGED <<ingredients, recipes, recipe_ingredients, tx, ret, app, created>>

\* get_recipe, second statement: fetch_all on the JOIN, and Ok(Recipe { .. })
get_recipe_fetch_ingredients ==
    /\ reader.pc = "ingredients"
    /\ LET links == VisibleRows(recipe_ingredients, TxLinkRows) IN
       reader' = [pc |-> "done", op |-> "get_recipe", arg |-> reader.arg,
                  val |-> Ok([id |-> reader.recipe.id, name |-> reader.recipe.name,
                              instructions |-> reader.recipe.instructions,
                              ingredients |->
                                  RecipeIngredientsOf(ingredients, links, reader.arg)]),
                  rows |-> <<>>]
    /\ UNCHANGED <<ingredients, recipes, recipe_ingredients, tx, ret, app, created>>

\* the second statement returns Err: ? returns it
get_recipe_fail ==
    /\ reader.pc = "ingredients"
    /\ reader' = [pc |-> "done", op |-> "get_recipe", arg |-> reader.arg,
                  val |-> ErrDatabase("storage"), rows |-> <<>>]
    /\ UNCHANGED <<ingredients, recipes, recipe_ingredients, tx, ret, app, created>>

\* generate_shopping_list is called by the reading client
shopping_list_call(recipe_ids) ==
    /\ reader.pc \in {"idle", "done"}
    /\ reader' = [pc |-> "shopping", op |-> "generate_shopping_list", arg |-> recipe_ids]
    /\ UNCHANGED <<ingredients, recipes, recipe_ingredients, tx, ret, app, created>>

\* its one fetch_all (none for an empty slice) and the value returned; rows are
\* the rows fetched
shopping_list_fetch ==
    /\ reader.pc = "shopping"
    /\ LET links == VisibleRows(recipe_ingredients, TxLinkRows) IN
       \E order \in MapOrders(ingredients, links, reader.arg) :
          reader' = [pc |-> "done", op |-> "generate_shopping_list", arg |-> reader.arg,
                     val |-> Ok(generate_shopping_list(ingredients, links,
                                                       reader.arg, order)),
                     rows |-> IF Len(reader.arg) = 0 THEN <<>>
                              ELSE ShoppingRows(ingredients, links, reader.arg)]
    /\ UNCHANGED <<ingredients, recipes, recipe_ingredients, tx, ret, app, created>>

(***************************************************************************)
(* get_all_ingredients                                                      *)
(***************************************************************************)
\* ORDER BY name
IngredientNameLess(x, y) == StrLess(x.name, y.name)

\* mutant: no ORDER BY, the rows come in rowid order
get_all_ingredients_unordered(table) == table

\* get_all_ingredients(pool): SELECT id, name, created_at FROM ingredients ORDER BY name
get_all_ingredients(table) == SortBy(table, IngredientNameLess)

\* a controller call of any client of the pool
GetAllIngredients ==
    /\ ret' = [op |-> "get_all_ingredients", val |-> Ok(get_all_ingredients(ingredients))]
    /\ UNCHANGED <<ingredients, recipes, recipe_ingredients, tx, app, created, reader>>

(***************************************************************************)
(* The importer (bin/recipe_importer.rs): main                              *)
(***************************************************************************)
\* IngredientStatus::Existing(id)
Existing(id) == [tag |-> "Existing", id |-> id]

\* IngredientStatus::New
New == [tag |-> "New", id |-> 0]

\* mutant: a name is mapped to its place in the list, not to the id of its row
CollectNameToIndex(records) ==
    [n \in {records[k].name : k \in 1..Len(records)} |->
        CHOOSE k \in 1..Len(records) : records[k].name = n]

\* .into_iter().map(|i| (i.name, i.id)).collect(): HashMap name -> id
CollectNameToId(records) ==
    [n \in {records[k].name : k \in 1..Len(records)} |->
        (CHOOSE r \in Rows(records) : r.name = n).id]

\* RecipeContext::new(possible_ingredients)
NewContext(possible_ingredients) ==
    [name |-> <<>>, ingredients |-> <<>>, instructions |-> <<>>,
     possible_ingredients |-> possible_ingredients, finished |-> FALSE]

(***************************************************************************)
(* The wizard (tui/app.rs, tui/ingredient_states.rs): a state is a record   *)
(* with the tag of its struct and the struct's fields; a handler returns    *)
(* the struct as it leaves it (self), the state it hands back (next: None   *)
(* or Some) and the context as it leaves it                                 *)
(***************************************************************************)
\* KeyCode::Char(c)
KeyChar(c) == [code |-> "Char", c |-> c]

KeyBackspace == [code |-> "Backspace", c |-> 0]

KeyEnter == [code |-> "Enter", c |-> 0]

KeyEsc == [code |-> "Esc", c |-> 0]

\* a key no handler names
KeyTab == [code |-> "Tab", c |-> 0]

\* mutant: the character is put in front
PushFront(str, c) == <<c>> \o str

\* String::push
Push(str, c) == Append(str, c)

\* String::pop: the last character removed, nothing done to the empty string
Pop(str) == IF Len(str) = 0 THEN str ELSE SubSeq(str, 1, Len(str) - 1)

\* mutant: no key is found
ContainsNoKey(map, name) == FALSE

\* IndexMap::contains_key
ContainsKey(map, name) == \E k \in 1..Len(map) : map[k].name = name

\* mutant: the entry is put in front of the others
IndexMapInsertFront(map, name, info) ==
    <<[name |-> name, status |-> info.status,
       quantity_unit |-> info.quantity_unit, notes |-> info.notes]>> \o map

\* IndexMap::insert: the value of a present key replaced in place, a new key appended
IndexMapInsert(map, name, info) ==
    LET entry == [name |-> name, status |-> info.status,
                  quantity_unit |-> info.quantity_unit, notes |-> info.notes]
    IN IF ContainsKey(map, name)
       THEN [k \in 1..Len(map) |-> IF map[k].name = name THEN entry ELSE map[k]]
       ELSE Append(map, entry)

\* format!("'{}' already added", ingredient_name)
AlreadyAdded(ingredient_name) ==
    <<39>> \o ingredient_name
           \o <<39, 32, 97, 108, 114, 101, 97, 100, 121, 32, 97, 100, 100, 101, 100>>

\* RecipeName::new
RecipeName_new == [tag |-> "RecipeName", current_input |-> <<>>]

\* mutant: a new IngredientList starts with a message
IngredientList_new_with_message ==
    [tag |-> "IngredientList", current_input |-> <<>>,
     error_message |-> Some(AlreadyAdded(<<>>))]

\* IngredientList::new
IngredientList_new ==
    [tag |-> "IngredientList", current_input |-> <<>>, error_message |-> None]

\* mutant: the name is not handed over
ConfirmIngredient_new_unnamed(ingredient) ==
    [tag |-> "ConfirmIngredient", ingredient |-> <<>>]

\* ConfirmIngredient::new
ConfirmIngredient_new(ingredient) ==
    [tag |-> "ConfirmIngredient", ingredient |-> ingredient]

\* mutant: the status handed over is dropped
IngredientQuantity_new_as_new(ingredient, status) ==
    [tag |-> "IngredientQuantity", ingredient |-> ingredient,
     current_input |-> <<>>, status |-> New]

\* IngredientQuantity::new
IngredientQuantity_new(ingredient, status) ==
    [tag |-> "IngredientQuantity", ingredient |-> ingredient,
     current_input |-> <<>>, status |-> status]

\* IngredientNotes::new
IngredientNotes_new(ingredient, status, quantity_unit) ==
    [tag |-> "IngredientNotes", ingredient |-> ingredient, current_input |-> <<>>,
     status |-> status, quantity_unit |-> quantity_unit]

\* Instructions::new
Instructions_new == [tag |-> "Instructions", current_input |-> <<>>]

\* what a handler returns
Handled(self, next, context) == [self |-> self, next |-> next, context |-> context]

\* mutant: a key without an arm clears the input
EditInputClearing(self, key, context) ==
    IF key.code = "Char"
    THEN Handled([self EXCEPT !.current_input = Push(@, key.c)], None, context)
    ELSE IF key.code = "Backspace"
    THEN Handled([self EXCEPT !.current_input = Pop(@)], None, context)
    ELSE Handled([self EXCEPT !.current_input = <<>>], None, context)

\* the arms Char, Backspace and _ that RecipeName, IngredientQuantity,
\* IngredientNotes and Instructions share
EditInput(self, key, context) ==
    IF key.code = "Char"
    THEN Handled([self EXCEPT !.current_input = Push(@, key.c)], None, context)
    ELSE IF key.code = "Backspace"
    THEN Handled([self EXCEPT !.current_input = Pop(@)], None, context)
    ELSE Handled(self, None, context)

\* mutant: an empty name is not taken, the state stays
RecipeName_handle_key_requiring(self, key, context) ==
    IF key.code = "Enter" /\ Len(self.current_input) = 0
    THEN Handled(self, None, context)
    ELSE IF key.code = "Enter"
    THEN Handled([self EXCEPT !.current_input = <<>>], Some(IngredientList_new),
                 [context EXCEPT !.name = self.current_input])
    ELSE EditInput(self, key, context)

\* RecipeName::handle_key
RecipeName_handle_key(self, key, context) ==
    IF key.code = "Enter"
    THEN Handled([self EXCEPT !.current_input = <<>>], Some(IngredientList_new),
                 [context EXCEPT !.name = self.current_input])
    ELSE EditInput(self, key, context)

\* mutant: a name the catalog does not know goes on to the quantity as New,
\* without the confirmation
IngredientList_handle_key_unconfirmed(self, key, context) ==
    IF key.code = "Char"
    THEN Handled([self EXCEPT !.current_input = Push(@, key.c), !.error_message = None],
                 None, context)
    ELSE IF key.code = "Backspace"
    THEN Handled([self EXCEPT !.current_input = Pop(@), !.error_message = None],
                 None, context)
    ELSE IF key.code = "Enter"
    THEN LET ingredient_name == self.current_input IN
         IF Len(ingredient_name) = 0
         THEN Handled(self, Some(Instructions_new), context)
         ELSE IF ContainsKey(context.ingredients, ingredient_name)
         THEN Handled([self EXCEPT !.error_message = Some(AlreadyAdded(ingredient_name)),
                                   !.current_input = <<>>],
                      None, context)
         ELSE IF ingredient_name \in DOMAIN context.possible_ingredients
         THEN Handled([self EXCEPT !.current_input = <<>>, !.error_message = None],
                      Some(IngredientQuantity_new(
                               ingredient_name,
                               Existing(context.possible_ingredients[ingredient_name]))),
                      context)
         ELSE Handled(self, Some(IngredientQuantity_new(ingredient_name, New)), context)
    ELSE Handled(self, None, context)

\* IngredientList::handle_key
IngredientList_handle_key(self, key, context) ==
    IF key.code = "Char"
    THEN Handled([self EXCEPT !.current_input = Push(@, key.c), !.error_message = None],
                 None, context)
    ELSE IF key.code = "Backspace"
    THEN Handled([self EXCEPT !.current_input = Pop(@), !.error_message = None],
                 None, context)
    ELSE IF key.code = "Enter"
    THEN LET ingredient_name == self.current_input IN
         IF Len(ingredient_name) = 0
         THEN Handled(self, Some(Instructions_new), context)
         ELSE IF ContainsKey(context.ingredients, ingredient_name)
         THEN Handled([self EXCEPT !.error_message = Some(AlreadyAdded(ingredient_name)),
                                   !.current_input = <<>>],
                      None, context)
         ELSE IF ingredient_name \in DOMAIN context.possible_ingredients
         THEN Handled([self EXCEPT !.current_input = <<>>, !.error_message = None],
                      Some(IngredientQuantity_new(
                               ingredient_name,
                               Existing(context.possible_ingredients[ingredient_name]))),
                      context)
         ELSE Handled(self, Some(ConfirmIngredient_new(ingredient_name)), context)
    ELSE Handled(self, None, context)

\* mutant: Enter confirms like y
ConfirmIngredient_handle_key_enter_confirms(self, key, context) ==
    IF (key.code = "Char" /\ key.c \in {121, 89}) \/ key.code = "Enter"
    THEN Handled(self, Some(IngredientQuantity_new(self.ingredient, New)), context)
    ELSE IF key.code = "Char" /\ key.c \in {110, 78}
    THEN Handled(self, Some(IngredientList_new), context)
    ELSE Handled(self, None, context)

\* mutant: only the capital N refuses
ConfirmIngredient_handle_key_capital_no(self, key, context) ==
    IF key.code = "Char" /\ key.c \in {121, 89}
    THEN Handled(self, Some(IngredientQuantity_new(self.ingredient, New)), context)
    ELSE IF key.code = "Char" /\ key.c = 78
    THEN Handled(self, Some(IngredientList_new), context)
    ELSE Handled(self, None, context)

\* ConfirmIngredient::handle_key
ConfirmIngredient_handle_key(self, key, context) ==
    IF key.code = "Char" /\ key.c \in {121, 89}
    THEN Handled(self, Some(IngredientQuantity_new(self.ingredient, New)), context)
    ELSE IF key.code = "Char" /\ key.c \in {110, 78}
    THEN Handled(self, Some(IngredientList_new), context)
    ELSE Handled(self, None, context)

\* mutant: the status is not handed on to IngredientNotes
IngredientQuantity_handle_key_dropping_status(self, key, context) ==
    IF key.code = "Enter"
    THEN Handled(self,
                 Some(IngredientNotes_new(self.ingredient, New, self.current_input)),
                 context)
    ELSE EditInput(self, key, context)

\* IngredientQuantity::handle_key
IngredientQuantity_handle_key(self, key, context) ==
    IF key.code = "Enter"
    THEN Handled(self,
                 Some(IngredientNotes_new(self.ingredient, self.status,
                                          self.current_input)),
                 context)
    ELSE EditInput(self, key, context)

\* mutant: the notes are also pushed onto the instructions
IngredientNotes_handle_key_noting(self, key, context) ==
    IF key.code = "Enter"
    THEN Handled(self, Some(IngredientList_new),
                 [context EXCEPT !.ingredients =
                     IndexMapInsert(@, self.ingredient,
                                    [status |-> self.status,
                                     quantity_unit |-> self.quantity_unit,
                                     notes |-> self.current_input]),
                                 !.instructions = Append(@, self.current_input)])
    ELSE EditInput(self, key, context)

\* IngredientNotes::handle_key
IngredientNotes_handle_key(self, key, context) ==
    IF key.code = "Enter"
    THEN Handled(self, Some(IngredientList_new),
                 [context EXCEPT !.ingredients =
                     IndexMapInsert(@, self.ingredient,
                                    [status |-> self.status,
                                     quantity_unit |-> self.quantity_unit,
                                     notes |-> self.current_input])])
    ELSE EditInput(self, key, context)

\* mutant: every Enter finishes, the step it submits pushed first
Instructions_handle_key_finishing(self, key, context) ==
    IF key.code = "Enter"
    THEN Handled([self EXCEPT !.current_input = <<>>], None,
                 [context EXCEPT !.finished = TRUE,
                                 !.instructions =
                                     IF Len(self.current_input) = 0 THEN @
                                     ELSE Append(@, self.current_input)])
    ELSE EditInput(self, key, context)

\* mutant: the input is kept after the step is pushed
Instructions_handle_key_keeping_input(self, key, context) ==
    IF key.code = "Enter"
    THEN LET instruction == self.current_input IN
         IF Len(instruction) = 0
         THEN Handled(self, None, [context EXCEPT !.finished = TRUE])
         ELSE Handled(self, None,
                      [context EXCEPT !.instructions = Append(@, instruction)])
    ELSE EditInput(self, key, context)

\* mutant: the Enter that finishes hands back a new IngredientList
Instructions_handle_key_leaving(self, key, context) ==
    IF key.code = "Enter"
    THEN LET instruction == self.current_input IN
         IF Len(instruction) = 0
         THEN Handled(self, Some(IngredientList_new), [context EXCEPT !.finished = TRUE])
         ELSE Handled([self EXCEPT !.current_input = <<>>], None,
                      [context EXCEPT !.instructions = Append(@, instruction)])
    ELSE EditInput(self, key, context)

\* mutant: Backspace on an empty input goes back to the ingredients
Instructions_handle_key_going_back(self, key, context) ==
    IF key.code = "Backspace" /\ Len(self.current_input) = 0
    THEN Handled(self, Some(IngredientList_new), context)
    ELSE IF key.code = "Enter"
    THEN LET instruction == self.current_input IN
         IF Len(instruction) = 0
         THEN Handled(self, None, [context EXCEPT !.finished = TRUE])
         ELSE Handled([self EXCEPT !.current_input = <<>>], None,
                      [context EXCEPT !.instructions = Append(@, instruction)])
    ELSE EditInput(self, key, context)

\* mutant: the empty step that finishes is stored as well
Instructions_handle_key_storing_empty(self, key, context) ==
    IF key.code = "Enter"
    THEN LET instruction == self.current_input IN
         IF Len(instruction) = 0
         THEN Handled(self, None,
                      [context EXCEPT !.finished = TRUE,
                                      !.instructions = Append(@, instruction)])
         ELSE Handled([self EXCEPT !.current_input = <<>>], None,
                      [context EXCEPT !.instructions = Append(@, instruction)])
    ELSE EditInput(self, key, context)

\* Instructions::handle_key
Instructions_handle_key(self, key, context) ==
    IF key.code = "Enter"
    THEN LET instruction == self.current_input IN
         IF Len(instruction) = 0
         THEN Handled(self, None, [context EXCEPT !.finished = TRUE])
         ELSE Handled([self EXCEPT !.current_input = <<>>], None,
                      [context EXCEPT !.instructions = Append(@, instruction)])
    ELSE EditInput(self, key, context)

\* self.state.handle_key(key, &mut self.context): the handler of the boxed state
state_handle_key(self, key, context) ==
    CASE self.tag = "RecipeName" -> RecipeName_handle_key(self, key, context)
      [] self.tag = "IngredientList" -> IngredientList_handle_key(self, key, context)
      [] self.tag = "ConfirmIngredient" -> ConfirmIngredient_handle_key(self, key, context)
      [] self.tag = "IngredientQuantity" -> IngredientQuantity_handle_key(self, key, context)
      [] self.tag = "IngredientNotes" -> IngredientNotes_handle_key(self, key, context)
      [] self.tag = "Instructions" -> Instructions_handle_key(self, key, context)

\* mutant: Esc is handed to the state like any other key
handle_key_without_exit(state, context, key) ==
    LET r == state_handle_key(state, key, context) IN
    [state |-> IF IsSome(r.next) THEN r.next[1] ELSE r.self,
     context |-> r.context,
     action |-> IF r.context.finished THEN "SaveAndExit" ELSE "Continue"]

\* RecipeApp::handle_key: the state and context it leaves and the action it returns
handle_key(state, context, key) ==
    IF key = KeyEsc
    THEN [state |-> state, context |-> context, action |-> "CancelAndExit"]
    ELSE LET r == state_handle_key(state, key, context) IN
         [state |-> IF IsSome(r.next) THEN r.next[1] ELSE r.self,
          context |-> r.context,
          action |-> IF r.context.finished THEN "SaveAndExit" ELSE "Continue"]

\* main before it has read the catalog
AppStart ==
    [pc |-> "start", state |-> RecipeName_new, context |-> NewContext(<<>>),
     key |-> KeyTab, action |-> "Continue", entered |-> <<>>, pos |-> 0,
     recipe_ingredients |-> <<>>, new_ids |-> {}]

\* RecipeApp::new(get_all_ingredients(&pool)...collect())
main_load_ingredients ==
    /\ app.pc = "start"
    /\ app' = [app EXCEPT !.pc = "wizard",
                          !.state = RecipeName_new,
                          !.context = NewContext(CollectNameToId(get_all_ingredients(ingredients)))]
    /\ UNCHANGED <<ingredients, recipes, recipe_ingredients, tx, ret, created, reader>>

\* quantity texts typed in the wizard: "", "2"
WizQuantities == {<<>>, <<50>>}

\* notes texts typed in the wizard: "", "x"
WizNotes == {<<>>, <<120>>}

\* instruction lists entered in the wizard: none, "m", then "m" and "k"
WizInstructions == {<<>>, <<(<<109>>)>>, <<(<<109>>), (<<107>>)>>}

\* recipe names typed in the wizard: "", "P"
WizNames == {<<>>, <<80>>}

\* the status IngredientList gives a submitted name
StatusOf(possible_ingredients, name) ==
    IF name \in DOMAIN possible_ingredients
    THEN Existing(possible_ingredients[name])
    ELSE New

\* the sequences of distinct ingredient names a context can hold
DistinctNames ==
    UNION {{ns \in [1..n -> Names] : \A i, j \in 1..n : i # j => ns[i] # ns[j]} :
           n \in 0..Cardinality(Names)}

\* the values context.ingredients can have when the wizard is left
ContextIngredients(possible_ingredients) ==
    UNION {{[k \in 1..Len(ns) |->
               [name |-> ns[k], status |-> StatusOf(possible_ingredients, ns[k]),
                quantity_unit |-> q[k], notes |-> nt[k]]] :
            q \in [1..Len(ns) -> WizQuantities], nt \in [1..Len(ns) -> WizNotes]} :
           ns \in DistinctNames}

\* the contexts handle_key can have returned SaveAndExit on
FinishedContexts(possible_ingredients) ==
    {[name |-> n, ingredients |-> ings, instructions |-> ins,
      possible_ingredients |-> possible_ingredients, finished |-> TRUE] :
     n \in WizNames, ings \in ContextIngredients(possible_ingredients),
     ins \in WizInstructions}

\* mutant: the loop goes on after SaveAndExit
AfterLoopKeepsReading(action, context) ==
    IF action = "CancelAndExit" THEN "cancelled" ELSE "wizard"

\* mutant: a context without a name is saved too
AfterLoopSavesUnnamed(action, context) ==
    IF action = "Continue" THEN "wizard"
    ELSE IF action = "SaveAndExit" THEN "saving"
    ELSE "cancelled"

\* where main goes with the action handle_key returned: on in the loop; out of it to
\* the save, if matches!(action, SaveAndExit) and !context.name.is_empty(); out of
\* it to one of the two messages that end main without a save
AfterLoop(action, context) ==
    IF action = "Continue" THEN "wizard"
    ELSE IF action = "SaveAndExit"
    THEN (IF Len(context.name) # 0 THEN "saving" ELSE "not_saved")
    ELSE "cancelled"

\* the whole loop run at once, ended by SaveAndExit
main_save_and_exit ==
    /\ app.pc = "wizard"
    /\ \E context \in FinishedContexts(app.context.possible_ingredients) :
          app' = [app EXCEPT !.context = context,
                             !.key = KeyEnter,
                             !.action = "SaveAndExit",
                             !.pc = AfterLoop("SaveAndExit", context)]
    /\ UNCHANGED <<ingredients, recipes, recipe_ingredients, tx, ret, created, reader>>

\* the whole loop run at once, ended by CancelAndExit
main_cancel_and_exit ==
    /\ app.pc = "wizard"
    /\ app' = [app EXCEPT !.key = KeyEsc,
                          !.action = "CancelAndExit",
                          !.pc = AfterLoop("CancelAndExit", app.context)]
    /\ UNCHANGED <<ingredients, recipes, recipe_ingredients, tx, ret, created, reader>>

\* the keys the user is taken to press in a state of the wizard
WizardKeys(tag) ==
    CASE tag = "RecipeName" -> {KeyChar(80), KeyBackspace, KeyEnter, KeyEsc}
      [] tag = "IngredientList" -> {KeyChar(97), KeyChar(98), KeyBackspace, KeyEnter,
                                    KeyTab, KeyEsc}
      [] tag = "ConfirmIngredient" -> {KeyChar(121), KeyChar(78), KeyEnter, KeyEsc}
      [] tag = "IngredientQuantity" -> {KeyChar(50), KeyEnter, KeyEsc}
      [] tag = "IngredientNotes" -> {KeyChar(120), KeyEnter, KeyEsc}
      [] tag = "Instructions" -> {KeyChar(109), KeyBackspace, KeyEnter, KeyEsc}

\* what a key submits: the text in the buffer when Enter is pressed, the character
\* pressed as the answer to a confirmation
Submitted(state, key) ==
    IF state.tag = "ConfirmIngredient"
    THEN (IF key.code = "Char" THEN <<(<<key.c>>)>> ELSE <<>>)
    ELSE (IF key = KeyEnter THEN <<state.current_input>> ELSE <<>>)

\* the keys that keep the session within the bounds
KeyInBounds(a, key) ==
    /\ (key.code = "Char" /\ a.state.tag # "ConfirmIngredient")
          => Len(a.state.current_input) < MaxInput
    /\ Len(a.entered) + Len(Submitted(a.state, key)) <= MaxEntered
    /\ (a.state.tag = "Instructions" /\ key = KeyEnter
           /\ Len(a.state.current_input) # 0)
          => Len(a.context.instructions) < MaxSteps

\* one turn of the main loop: event::read() gives a key, app.handle_key(key)
\* gives the action, which is Continue or breaks the loop
main_handle_key(key) ==
    /\ app.pc = "wizard"
    /\ KeyInBounds(app, key)
    /\ LET r == handle_key(app.state, app.context, key) IN
       app' = [app EXCEPT !.state = r.state,
                          !.context = r.context,
                          !.key = key,
                          !.action = r.action,
                          !.entered = @ \o Submitted(app.state, key),
                          !.pc = AfterLoop(r.action, r.context)]
    /\ UNCHANGED <<ingredients, recipes, recipe_ingredients, tx, ret, created, reader>>

\* mutant: the notes are always present
NotesAlwaysSome(info) == Some(info.notes)

\* notes: if info.notes.is_empty() { None } else { Some(info.notes) }
NotesOf(info) == IF Len(info.notes) = 0 THEN None ELSE Some(info.notes)

\* instructions: if context.instructions.is_empty() { None } else { Some(join("\n")) }
InstructionsOf(context) ==
    IF Len(context.instructions) = 0 THEN None
    ELSE Some(Join(context.instructions, Newline))

\* recipe_ingredients.push(RecipeIngredient { ... })
PushedIngredient(info, ingredient_id) ==
    [ingredient_id |-> ingredient_id, ingredient_name |-> info.name,
     quantity_unit |-> info.quantity_unit, notes |-> NotesOf(info)]

\* mutant: on a failed create_ingredient main takes the id of the row of that name
\* and goes on
main_save_ingredient_reusing ==
    /\ app.pc = "saving"
    /\ app.pos < Len(app.context.ingredients)
    /\ LET info == app.context.ingredients[app.pos + 1]
           r == create_ingredient_or_ignore(ingredients, info.name)
           ingredient_id == IF info.status.tag = "New" THEN r.val.v ELSE info.status.id
       IN /\ info.status.tag = "New" => ~WriteLocked
          /\ ingredients' = IF info.status.tag = "New" THEN r.table ELSE ingredients
          /\ ret' = IF info.status.tag = "New"
                    THEN [op |-> "create_ingredient", arg |-> info.name, val |-> r.val]
                    ELSE ret
          /\ app' = [app EXCEPT !.pos = @ + 1,
                                !.recipe_ingredients =
                                    Append(@, PushedIngredient(info, ingredient_id))]
    /\ UNCHANGED <<recipes, recipe_ingredients, tx, created, reader>>

\* mutant: create_ingredient is called for every entry, whatever its status
main_save_ingredient_creating_all ==
    /\ app.pc = "saving"
    /\ app.pos < Len(app.context.ingredients)
    /\ ~WriteLocked
    /\ LET info == app.context.ingredients[app.pos + 1]
           r == create_ingredient(ingredients, info.name)
       IN /\ ingredients' = r.table
          /\ ret' = [op |-> "create_ingredient", arg |-> info.name, val |-> r.val]
          /\ app' = IF r.val.ok
                    THEN [app EXCEPT !.pos = @ + 1,
                                     !.new_ids = @ \cup {r.val.v},
                                     !.recipe_ingredients =
                                         Append(@, PushedIngredient(info, r.val.v))]
                    ELSE [app EXCEPT !.pc = "error"]
    /\ UNCHANGED <<recipes, recipe_ingredients, tx, created, reader>>

\* one turn of the loop over context.ingredients
main_save_ingredient ==
    /\ app.pc = "saving"
    /\ app.pos < Len(app.context.ingredients)
    /\ LET info == app.context.ingredients[app.pos + 1] IN
       IF info.status.tag = "New"
       THEN /\ ~WriteLocked
            /\ LET r == create_ingredient(ingredients, info.name) IN
               /\ ingredients' = r.table
               /\ ret' = [op |-> "create_ingredient", arg |-> info.name, val |-> r.val]
               /\ app' = IF r.val.ok
                         THEN [app EXCEPT !.pos = @ + 1,
                                          !.new_ids = @ \cup {r.val.v},
                                          !.recipe_ingredients =
                                              Append(@, PushedIngredient(info, r.val.v))]
                         ELSE [app EXCEPT !.pc = "error"]
       ELSE /\ app' = [app EXCEPT !.pos = @ + 1,
                                  !.recipe_ingredients =
                                      Append(@, PushedIngredient(info, info.status.id))]
            /\ UNCHANGED <<ingredients, ret>>
    /\ UNCHANGED <<recipes, recipe_ingredients, tx, created, reader>>

\* Recipe { id: 0, name, instructions, ingredients, created_at: String::new() }
MainRecipe(a) ==
    [name |-> a.context.name, instructions |-> InstructionsOf(a.context),
     ingredients |-> a.recipe_ingredients]

\* create_recipe(&pool, &recipe) is called
main_create_recipe ==
    /\ app.pc = "saving"
    /\ app.pos = Len(app.context.ingredients)
    /\ create_recipe_begin("main", MainRecipe(app))
    /\ app' = [app EXCEPT !.pc = "create_recipe"]
    /\ UNCHANGED reader

(***************************************************************************)
(* Specifications                                                           *)
(***************************************************************************)
SeqsUpTo(S, n) == UNION {[1..k -> S] : k \in 0..n}

\* a sample of the RecipeIngredient values a client passes to create_recipe: any
\* id (0 is the id of no row), any name, a payload
RefInputs ==
    {[ingredient_id |-> id, ingredient_name |-> n,
      quantity_unit |-> p.quantity_unit, notes |-> p.notes] :
     id \in 0..MaxIngredients, n \in Names, p \in Payloads}

\* the Recipe values built from them (id and created_at are ignored by create_recipe)
RecipeInputs ==
    {[name |-> h.name, instructions |-> h.instructions, ingredients |-> refs] :
     h \in Heads, refs \in SeqsUpTo(RefInputs, MaxLinks)}

Init ==
    /\ ingredients = <<>>
    /\ recipes = <<>>
    /\ recipe_ingredients = <<>>
    /\ tx = NoTx
    /\ ret = NoRet
    /\ app = AppStart
    /\ created = <<>>
    /\ reader = ReaderIdle

\* the steps of a create_recipe call in flight
CreateRecipeStep ==
    \/ create_recipe_insert_recipe
    \/ create_recipe_insert_link
    \/ create_recipe_commit
    \/ create_recipe_fail

\* a client of the pool calls the controllers one after another
Next ==
    \/ /\ tx = NoTx
       /\ \/ \E name \in Names : CreateIngredient(name)
          \/ \E recipe \in RecipeInputs : CreateRecipe(recipe)
          \/ \E recipe_id \in 1..(MaxRecipes + 1) : GetRecipe(recipe_id)
          \/ GetAllIngredients
    \/ CreateRecipeStep

Spec == Init /\ [][Next]_vars

\* the recipes of the shopping-list runs: one head, references by id and quantity
ShopRecipeInputs ==
    {r \in RecipeInputs :
        /\ r.name = <<80>>
        /\ \A k \in 1..Len(r.ingredients) :
              /\ r.ingredients[k].ingredient_name = <<97>>
              /\ r.ingredients[k].ingredient_id # 0}

\* the recipe_ids slices passed to generate_shopping_list: any order, repeats, unknown ids
IdLists == SeqsUpTo(1..(MaxRecipes + 1), MaxIds)

\* a client fills the store and asks for shopping lists
NextShop ==
    \/ /\ tx = NoTx
       /\ \/ \E name \in Names : CreateIngredient(name)
          \/ \E recipe \in ShopRecipeInputs : CreateRecipe(recipe)
          \/ \E recipe_ids \in IdLists : GenerateShoppingList(recipe_ids)
    \/ CreateRecipeStep

SpecShop == Init /\ [][NextShop]_vars

\* the recipes other clients create while the importer runs
OtherRecipeInputs ==
    {r \in RecipeInputs :
        /\ r.name = <<87>>
        /\ Len(r.ingredients) <= 1
        /\ \A k \in 1..Len(r.ingredients) :
              /\ r.ingredients[k].ingredient_name = <<97>>
              /\ r.ingredients[k].quantity_unit = <<50>>}

\* main, from loading the catalog to its exit
MainStep ==
    \/ main_load_ingredients
    \/ main_save_and_exit
    \/ main_cancel_and_exit
    \/ main_save_ingredient
    \/ main_create_recipe

\* the importer runs while other clients of the database create ingredients and recipes
NextImporter ==
    \/ MainStep
    \/ \E name \in Names : CreateIngredient(name)
    \/ \E recipe \in OtherRecipeInputs : tx = NoTx /\ CreateRecipe(recipe)
    \/ CreateRecipeStep

SpecImporter == Init /\ [][NextImporter]_vars

\* one session of the importer, key by key, on a catalog other clients have filled
\* before it starts; a client reads the recipe once it is saved
NextWizard ==
    \/ app.pc = "start" /\ \E name \in Names : CreateIngredient(name)
    \/ main_load_ingredients
    \/ \E key \in WizardKeys(app.state.tag) : main_handle_key(key)
    \/ main_save_ingredient
    \/ main_create_recipe
    \/ CreateRecipeStep
    \/ app.pc = "done" /\ \E recipe_id \in 1..MaxRecipes : GetRecipe(recipe_id)

SpecWizard == Init /\ [][NextWizard]_vars

\* the id lists of the reading client
ReaderIdLists == SeqsUpTo(1..(MaxRecipes + 1), 1) \cup {<<1, 2>>}

\* the calls of the reading client, statement by statement
ReaderStep ==
    \/ \E recipe_id \in 1..(MaxRecipes + 1) : get_recipe_fetch_recipe(recipe_id)
    \/ get_recipe_fetch_ingredients
    \/ get_recipe_fail
    \/ \E recipe_ids \in ReaderIdLists : shopping_list_call(recipe_ids)
    \/ shopping_list_fetch

\* clients that write, one create_recipe after another, each statement a step, and
\* a client that reads between any two of their statements
NextConcurrent ==
    \/ tx = NoTx /\ \E name \in Names : CreateIngredient(name)
    \/ tx = NoTx /\ \E recipe \in ShopRecipeInputs : CreateRecipe(recipe)
    \/ CreateRecipeStep
    \/ ReaderStep

SpecConcurrent == Init /\ [][NextConcurrent]_vars

(***************************************************************************)
(* Claims                                                                   *)
(***************************************************************************)
\* the link rows of a recipe, in table order
LinksOf(links, recipe_id) ==
    SelectIdx(links, {k \in 1..Len(links) : links[k].recipe_id = recipe_id}, 1)

\* a step of the create_recipe call in flight that ends the call
CreateRecipeEnds == tx.pc # "none" /\ tx'.pc = "none"

\* C1: create_recipe is one atomic transaction. A call that fails, whatever it had
\* inserted, leaves recipes and recipe_ingredients as they were; the tables change
\* only by a commit, which happens when every reference of the input has its link
\* row and adds the recipe row and exactly those link rows.
C1_CreateRecipeAtomic ==
    [][/\ (CreateRecipeEnds /\ ~ret'.val.ok) =>
            (recipes' = recipes /\ recipe_ingredients' = recipe_ingredients)
       /\ (recipes' # recipes \/ recipe_ingredients' # recipe_ingredients) =>
            /\ CreateRecipeEnds /\ ret'.val.ok
            /\ Len(tx.link_rows) = Len(tx.recipe.ingredients)
            /\ Len(recipes') = Len(recipes) + 1
            /\ recipes'[Len(recipes')].id = ret'.val.v
            /\ Len(LinksOf(recipe_ingredients', ret'.val.v)) = Len(tx.recipe.ingredients)
            /\ Len(recipe_ingredients') =
                   Len(recipe_ingredients) + Len(tx.recipe.ingredients)
       /\ \A r \in Rows(recipes') :
            Len(LinksOf(recipe_ingredients', r.id)) = Len(created'[r.id].ingredients)
      ]_vars

\* C1 witness: a call has failed after it had inserted the recipe row and a link row
C1_Witness ==
    /\ ret.op = "create_recipe"
    /\ ~ret.val.ok
    /\ ret.inserted >= 2

\* C2 (as claimed): persisting a finished context is all-or-nothing. When main has
\* left the persistence with an error, no catalog row it created is in the store;
\* when it has left it with success, the recipe row and a link row per entry are.
C2_AllOrNothing ==
    /\ app.pc = "error" => \A i \in Rows(ingredients) : i.id \notin app.new_ids
    /\ app.pc = "done" =>
          \E r \in Rows(recipes) :
             /\ r.name = app.context.name
             /\ Len(LinksOf(recipe_ingredients, r.id)) = Len(app.context.ingredients)

C4_UniqueNames ==
    \A i, j \in 1..Len(ingredients) :
        i # j => (ingredients[i].name # ingredients[j].name
                  /\ ingredients[i].id # ingredients[j].id)

\* C4 witness: two recipes reference one catalog row, and a create_ingredient of a
\* present name has failed
C4_Witness ==
    /\ \E l1, l2 \in Rows(recipe_ingredients), i \in Rows(ingredients) :
          /\ l1.recipe_id # l2.recipe_id
          /\ l1.ingredient_id = i.id
          /\ l2.ingredient_id = i.id
    /\ ret.op = "create_ingredient"
    /\ ~ret.val.ok

\* a call of op has returned in this step (a repeated call that returns the same
\* value and changes nothing is a stuttering step)
Returned(op) == ret'.op = op /\ (ret' # ret \/ ingredients' # ingredients)

\* C5: create_ingredient(name) fails on the unique constraint exactly when a row of
\* that name exists, and then leaves the catalog as it was; otherwise it appends one
\* row of that name and returns the id of that row, an id no earlier row has.
C5_CreateIngredient ==
    [][Returned("create_ingredient") =>
         IF HasName(ingredients, ret'.arg)
         THEN /\ ~ret'.val.ok
              /\ ret'.val = ErrDatabase("unique")
              /\ ingredients' = ingredients
         ELSE /\ ret'.val.ok
              /\ ingredients' = Append(ingredients, [id |-> ret'.val.v, name |-> ret'.arg])
              /\ \A i \in Rows(ingredients) : i.id # ret'.val.v
      ]_vars

\* C5 witness: a create_ingredient of a present name has failed, the catalog holding
\* another row besides
C5_Witness ==
    /\ ret.op = "create_ingredient"
    /\ ~ret.val.ok
    /\ Len(ingredients) = 2

\* the references of a create_recipe input each name a catalog row by id and name
RefsExist(recipe) ==
    \A k \in 1..Len(recipe.ingredients) :
       \E i \in Rows(ingredients) :
          /\ i.id = recipe.ingredients[k].ingredient_id
          /\ i.name = recipe.ingredients[k].ingredient_name

\* C6: get_recipe on the id of a committed create_recipe whose references are
\* catalog rows returns the input's name and instructions and the input's
\* references (id, name, quantity_unit, notes), in input order.
C6_RoundTrip ==
    (/\ ret.op = "get_recipe"
     /\ ret.arg \in 1..Len(created)
     /\ RefsExist(created[ret.arg]))
    => /\ ret.val.ok
       /\ ret.val.v.id = ret.arg
       /\ ret.val.v.name = created[ret.arg].name
       /\ ret.val.v.instructions = created[ret.arg].instructions
       /\ ret.val.v.ingredients = created[ret.arg].ingredients

\* C6 witness: a recipe read back with two ingredients, the first of which sorts
\* after the second by name, the first with notes and the second without
C6_Witness ==
    /\ ret.op = "get_recipe"
    /\ ret.arg \in 1..Len(created)
    /\ RefsExist(created[ret.arg])
    /\ ret.val.ok
    /\ Len(ret.val.v.ingredients) = 2
    /\ StrLess(ret.val.v.ingredients[2].ingredient_name,
               ret.val.v.ingredients[1].ingredient_name)
    /\ IsSome(ret.val.v.ingredients[1].notes)
    /\ ~IsSome(ret.val.v.ingredients[2].notes)

\* C7: get_recipe(id) changes no table; when no recipe row has that id it returns
\* RecipeNotFound carrying that id; when a row has it, it returns the recipe, also
\* when the recipe has no link rows.
C7_GetRecipeNotFound ==
    [][Returned("get_recipe") =>
         /\ ingredients' = ingredients
         /\ recipes' = recipes
         /\ recipe_ingredients' = recipe_ingredients
         /\ IF \E r \in Rows(recipes) : r.id = ret'.arg
            THEN ret'.val.ok
            ELSE /\ ~ret'.val.ok
                 /\ ret'.val.err = "RecipeNotFound"
                 /\ ret'.val.cause = ret'.arg
      ]_vars

\* C7 witness: not found for an id beyond a stored recipe that has no link rows
C7_Witness ==
    /\ ret.op = "get_recipe"
    /\ ~ret.val.ok
    /\ ret.arg = 2
    /\ Len(recipes) = 1
    /\ recipe_ingredients = <<>>

\* the slices that hold the same ids as recipe_ids, each as often, in any order
Reorderings(recipe_ids) ==
    {p \in [1..Len(recipe_ids) -> Range(recipe_ids)] :
        \A id \in Range(recipe_ids) :
           Cardinality({k \in 1..Len(p) : p[k] = id})
             = Cardinality({k \in 1..Len(recipe_ids) : recipe_ids[k] = id})}

\* C8: over the store a shopping list was computed from, every ordering of the same
\* recipe ids and every iteration order of the map gives the same sequence of items.
C8_OrderIndependent ==
    ret.op = "generate_shopping_list" =>
       \A ids \in Reorderings(ret.arg) :
          \A order \in MapOrders(ingredients, recipe_ingredients, ids) :
             generate_shopping_list(ingredients, recipe_ingredients, ids, order) = ret.val.v

\* C8 witness: a list for two recipes, the first id larger than the second, with an
\* item combined from a row of each
C8_Witness ==
    /\ ret.op = "generate_shopping_list"
    /\ ret.arg = <<2, 1>>
    /\ \E k \in 1..Len(ret.val.v) : ret.val.v[k].combined_quantity = <<50, 32, 43, 32, 51>>

\* the link rows of the requested recipes whose ingredient is the catalog row of name
LinksOfName(recipe_ids, name) ==
    {l \in Rows(recipe_ingredients) :
        /\ l.recipe_id \in Range(recipe_ids)
        /\ \E i \in Rows(ingredients) : i.id = l.ingredient_id /\ i.name = name}

\* the rows of a set in ascending id
AscendingById(S) ==
    CHOOSE s \in Orders(S) : \A i, j \in 1..Len(s) : i < j => s[i].id < s[j].id

\* the quantity_unit values of the rows of a set, in ascending id
QuantitiesOf(S) ==
    LET s == AscendingById(S) IN [k \in 1..Len(s) |-> s[k].quantity_unit]

\* C9: for a non-empty id list the result has exactly one item for each ingredient
\* name that a link row of the requested recipes refers to, no other item, and the
\* item's combined_quantity is the quantity_unit of each such row once, in ascending
\* link id, joined with " + ".
C9_OneItemPerName ==
    (ret.op = "generate_shopping_list" /\ Len(ret.arg) > 0) =>
       /\ \A name \in {i.name : i \in Rows(ingredients)} :
             LinksOfName(ret.arg, name) # {} =>
                Cardinality({k \in 1..Len(ret.val.v) :
                                ret.val.v[k].ingredient_name = name}) = 1
       /\ \A k \in 1..Len(ret.val.v) :
             /\ LinksOfName(ret.arg, ret.val.v[k].ingredient_name) # {}
             /\ ret.val.v[k].combined_quantity
                  = Join(QuantitiesOf(LinksOfName(ret.arg, ret.val.v[k].ingredient_name)),
                         PlusSep)

\* C9 witness: an id given twice, and an item combined from two rows whose
\* quantities differ
C9_Witness ==
    /\ ret.op = "generate_shopping_list"
    /\ ret.arg = <<1, 1>>
    /\ Len(ret.val.v) = 1
    /\ ret.val.v[1].combined_quantity = <<51, 32, 43, 32, 50>>

\* C10: the sequence returned is strictly ascending by ingredient_name.
C10_StrictlyAscending ==
    ret.op = "generate_shopping_list" =>
       \A i, j \in 1..Len(ret.val.v) :
          i < j => StrLess(ret.val.v[i].ingredient_name, ret.val.v[j].ingredient_name)

\* C10 witness: a list of two items
C10_Witness ==
    /\ ret.op = "generate_shopping_list"
    /\ Len(ret.val.v) = 2

\* C11: generate_shopping_list with an empty id list returns the empty sequence and
\* sends no statement to the store, whatever the store holds.
C11_EmptyIdList ==
    (ret.op = "generate_shopping_list" /\ Len(ret.arg) = 0) =>
       /\ ret.val = Ok(<<>>)
       /\ ret.queries = 0

\* C11 witness: the empty list asked of a store that holds a recipe with a link row
C11_Witness ==
    /\ ret.op = "generate_shopping_list"
    /\ ret.arg = <<>>
    /\ \E l \in Rows(recipe_ingredients), i \in Rows(ingredients) :
          l.recipe_id = 1 /\ l.ingredient_id = i.id

\* the main loop has handled the key k in this step
KeyStep(k) == app.pc = "wizard" /\ app' # app /\ app'.key = k

\* C12: Enter in IngredientList on a non-empty name that is a key of
\* context.ingredients leaves the context as it was, sets the error message
\* "'<name>' already added", clears the input and stays in IngredientList.
C12_DuplicateName ==
    [][(/\ KeyStep(KeyEnter)
        /\ app.state.tag = "IngredientList"
        /\ Len(app.state.current_input) > 0
        /\ \E k \in 1..Len(app.context.ingredients) :
              app.context.ingredients[k].name = app.state.current_input)
       => /\ app'.context = app.context
          /\ app'.state.tag = "IngredientList"
          /\ app'.state.current_input = <<>>
          /\ app'.state.error_message =
                <<(<<39>> \o app.state.current_input \o
                   <<39, 32, 97, 108, 114, 101, 97, 100, 121,
                     32, 97, 100, 100, 101, 100>>)>>
          /\ app'.action = "Continue"
          /\ app'.pc = "wizard"
      ]_vars

\* C12 witness: "b" was submitted again with "a" and "b" in the context, and the
\* message 'b' already added is set
C12_Witness ==
    /\ app.state.tag = "IngredientList"
    /\ Len(app.context.ingredients) = 2
    /\ app.state.error_message =
          <<(<<39, 98, 39, 32, 97, 108, 114, 101, 97, 100, 121,
               32, 97, 100, 100, 101, 100>>)>>

\* C13: context.ingredients changes only by Enter in IngredientNotes, which appends
\* one entry, of a name no earlier entry has, made of the state's ingredient, status
\* and quantity_unit and the notes typed; every earlier entry stays as and where it
\* was.
C13_EntriesAppendOnly ==
    [][IF KeyStep(KeyEnter) /\ app.state.tag = "IngredientNotes"
       THEN /\ app'.context.ingredients =
                 Append(app.context.ingredients,
                        [name |-> app.state.ingredient,
                         status |-> app.state.status,
                         quantity_unit |-> app.state.quantity_unit,
                         notes |-> app.state.current_input])
            /\ \A k \in 1..Len(app.context.ingredients) :
                  /\ app.context.ingredients[k].name # app.state.ingredient
                  /\ app'.context.ingredients[k] = app.context.ingredients[k]
       ELSE app'.context.ingredients = app.context.ingredients
      ]_vars

\* C13 witness: a second entry has been added behind a first one, the first New
\* with a quantity, the second with notes
C13_Witness ==
    /\ app.pc = "wizard"
    /\ app.state.tag = "IngredientList"
    /\ Len(app.context.ingredients) = 2
    /\ app.context.ingredients[1].status = New
    /\ Len(app.context.ingredients[1].quantity_unit) > 0
    /\ Len(app.context.ingredients[2].notes) > 0

\* C14: Esc, in whatever state of the wizard, makes handle_key return CancelAndExit
\* with the state and the context as they were; main leaves the loop, handles no
\* further key and writes nothing: from then on neither main nor the store changes.
C14_CancelKey ==
    [][/\ KeyStep(KeyEsc) =>
            /\ app'.action = "CancelAndExit"
            /\ app'.state = app.state
            /\ app'.context = app.context
            /\ app'.pc = "cancelled"
       /\ (app.pc = "cancelled" \/ app'.pc = "cancelled") =>
            /\ app.pc = "cancelled" => app' = app
            /\ ingredients' = ingredients
            /\ recipes' = recipes
            /\ recipe_ingredients' = recipe_ingredients
            /\ tx' = tx /\ tx = NoTx
            /\ app'.new_ids = {}
      ]_vars

\* C14 witness: a session cancelled in Instructions, with a named recipe, a New
\* ingredient and a step in its context, and nothing of it in the store
C14_Witness ==
    /\ app.pc = "cancelled"
    /\ app.state.tag = "Instructions"
    /\ Len(app.context.name) > 0
    /\ Len(app.context.instructions) > 0
    /\ \E k \in 1..Len(app.context.ingredients) :
          /\ app.context.ingredients[k].status = New
          /\ ~HasName(ingredients, app.context.ingredients[k].name)
    /\ recipes = <<>>

\* the recipe row main's create_recipe has committed
SavedRecipe == CHOOSE r \in Rows(recipes) : r.name = app.context.name

\* C15: once main has saved its context, the notes of the k-th link row of the
\* recipe are absent if the notes of the k-th entry are the empty text and are that
\* text otherwise, and the instructions of the recipe row are absent if no step was
\* entered and are the steps, in order, joined by one newline otherwise.
C15_AbsentIffEmpty ==
    app.pc = "done" =>
       LET links == LinksOf(recipe_ingredients, SavedRecipe.id)
           steps == app.context.instructions
       IN /\ Len(links) = Len(app.context.ingredients)
          /\ \A k \in 1..Len(links) :
                /\ (links[k].notes = <<>>) <=> (app.context.ingredients[k].notes = <<>>)
                /\ links[k].notes # <<>> =>
                      links[k].notes = <<app.context.ingredients[k].notes>>
          /\ (SavedRecipe.instructions = <<>>) <=> (Len(steps) = 0)
          /\ Len(steps) > 0 => SavedRecipe.instructions = <<Join(steps, <<10>>)>>

\* C15 witness: a saved recipe of two steps "m" and "m", joined to "m\nm", with one
\* link without notes and one with
C15_Witness ==
    /\ app.pc = "done"
    /\ SavedRecipe.instructions = <<(<<109, 10, 109>>)>>
    /\ \E l1, l2 \in Rows(recipe_ingredients) :
          l1.notes = <<>> /\ l2.notes = <<(<<120>>)>>

\* The reading of what was submitted as a session of the form: a name; for each
\* ingredient its name, distinct from the earlier ones, the answer yes if the
\* catalog snapshot does not know it, a quantity and notes; an empty ingredient
\* name; the steps, none empty; an empty step, with which the submissions end.
NoParse == [ok |-> FALSE]

RECURSIVE ParseSteps(_, _, _)
ParseSteps(lines, i, steps) ==
    IF i > Len(lines) THEN NoParse
    ELSE IF lines[i] = <<>>
    THEN (IF i = Len(lines) THEN [ok |-> TRUE, steps |-> steps] ELSE NoParse)
    ELSE ParseSteps(lines, i + 1, Append(steps, lines[i]))

RECURSIVE ParseEntries(_, _, _, _)
ParseEntries(lines, i, known, entries) ==
    IF i > Len(lines) THEN NoParse
    ELSE IF lines[i] = <<>> THEN [ok |-> TRUE, entries |-> entries, next |-> i + 1]
    ELSE IF \E k \in 1..Len(entries) : entries[k].name = lines[i] THEN NoParse
    ELSE IF lines[i] \in DOMAIN known
    THEN (IF i + 2 > Len(lines) THEN NoParse
          ELSE ParseEntries(lines, i + 3, known,
                            Append(entries,
                                   [name |-> lines[i],
                                    status |-> [tag |-> "Existing", id |-> known[lines[i]]],
                                    quantity_unit |-> lines[i + 1],
                                    notes |-> lines[i + 2]])))
    ELSE (IF i + 3 > Len(lines) \/ lines[i + 1] \notin {<<121>>, <<89>>} THEN NoParse
          ELSE ParseEntries(lines, i + 4, known,
                            Append(entries,
                                   [name |-> lines[i],
                                    status |-> [tag |-> "New", id |-> 0],
                                    quantity_unit |-> lines[i + 2],
                                    notes |-> lines[i + 3]])))

\* the context a session of the form is to end with
ParseSession(lines, known) ==
    IF Len(lines) = 0 THEN NoParse
    ELSE LET e == ParseEntries(lines, 2, known, <<>>) IN
         IF ~e.ok THEN NoParse
         ELSE LET st == ParseSteps(lines, e.next, <<>>) IN
              IF ~st.ok THEN NoParse
              ELSE [ok |-> TRUE,
                    context |-> [name |-> lines[1], ingredients |-> e.entries,
                                 instructions |-> st.steps,
                                 possible_ingredients |-> known, finished |-> TRUE]]

\* C16: when what was submitted is a session of the form, handle_key has returned
\* SaveAndExit and the context is the one the submissions spell out: finished, the
\* name, the entries in entry order with Existing(id of the snapshot) or New and
\* quantity and notes as typed, the steps in order. Once main has saved it, the
\* catalog has one more row for each New entry, one row of each entry's name, and
\* get_recipe on the saved recipe returns the entries' names, quantities and notes
\* in entry order.
C16_SessionOfTheForm ==
    LET p == ParseSession(app.entered, app.context.possible_ingredients) IN
    p.ok =>
       /\ app.action = "SaveAndExit"
       /\ app.pc \notin {"wizard", "cancelled"}
       /\ app.context = p.context
       /\ app.pc = "done" =>
             LET entries == p.context.ingredients
                 news == {k \in 1..Len(entries) : entries[k].status.tag = "New"}
                 got == get_recipe(ingredients, recipes, recipe_ingredients,
                                   SavedRecipe.id)
             IN /\ Len(ingredients) =
                      Cardinality(DOMAIN app.context.possible_ingredients)
                        + Cardinality(news)
                /\ \A k \in 1..Len(entries) :
                      Cardinality({i \in 1..Len(ingredients) :
                                      ingredients[i].name = entries[k].name}) = 1
                /\ got.ok
                /\ Len(got.v.ingredients) = Len(entries)
                /\ \A k \in 1..Len(entries) :
                      /\ got.v.ingredients[k].ingredient_name = entries[k].name
                      /\ got.v.ingredients[k].quantity_unit = entries[k].quantity_unit
                      /\ entries[k].status.tag = "Existing" =>
                            got.v.ingredients[k].ingredient_id = entries[k].status.id

\* C16 witness: the session P; b (unknown), y, 2, no notes; a (known), no quantity,
\* x; no more ingredients; step m; end - saved, and read back by a client
C16_Witness ==
    /\ app.pc = "done"
    /\ app.entered = << <<80>>, <<98>>, <<121>>, <<50>>, <<>>, <<97>>, <<>>, <<120>>,
                        <<>>, <<109>>, <<>> >>
    /\ ret.op = "get_recipe"
    /\ ret.val.ok
    /\ Len(ret.val.v.ingredients) = 2

\* every key of the sample
AllKeys ==
    UNION {WizardKeys(tag) : tag \in {"RecipeName", "IngredientList", "ConfirmIngredient",
                                       "IngredientQuantity", "IngredientNotes",
                                       "Instructions"}}

\* C17: context.finished is false in the context RecipeApp::new makes; it becomes
\* true only by Enter in Instructions on an empty input, and that Enter always sets
\* it; once true it stays true in every step, and no key handed to handle_key in a
\* state where it is true would make it false.
C17_FinishedSetOnce ==
    [][/\ (app.pc = "start" /\ app'.pc # "start") => ~app'.context.finished
       /\ (~app.context.finished /\ app'.context.finished) =>
            /\ KeyStep(KeyEnter)
            /\ app.state.tag = "Instructions"
            /\ app.state.current_input = <<>>
       /\ (KeyStep(KeyEnter) /\ app.state.tag = "Instructions"
              /\ app.state.current_input = <<>>) => app'.context.finished
       /\ app.context.finished =>
            /\ app'.context.finished
            /\ \A key \in AllKeys :
                  handle_key(app.state, app.context, key).context.finished
      ]_vars

\* C17 witness: a finished context that holds two steps, each submitted by an Enter
\* that did not finish it
C17_Witness ==
    /\ app.context.finished
    /\ Len(app.context.instructions) = 2
    /\ app.state.tag = "Instructions"

\* C18: once handle_key has returned SaveAndExit or CancelAndExit no key is handled:
\* state, context, key and action stay as they are, so the context main saves is
\* the one that was finished. main turns it into a Recipe and calls create_recipe
\* at most once: the call is made from the save, with the name, the entries in
\* order and the instructions of that context, and main never returns to the loop
\* or to the save.
C18_ConsumedOnce ==
    [][/\ app.action # "Continue" =>
            /\ app'.state = app.state
            /\ app'.context = app.context
            /\ app'.key = app.key
            /\ app'.action = app.action
            /\ app'.entered = app.entered
       /\ (tx.pc = "none" /\ tx'.pc # "none") =>
            /\ app.pc = "saving" /\ app'.pc = "create_recipe"
            /\ app.context.finished
            /\ tx'.recipe.name = app.context.name
            /\ tx'.recipe.instructions = InstructionsOf(app.context)
            /\ Len(tx'.recipe.ingredients) = Len(app.context.ingredients)
            /\ \A k \in 1..Len(app.context.ingredients) :
                  /\ tx'.recipe.ingredients[k].ingredient_name
                       = app.context.ingredients[k].name
                  /\ tx'.recipe.ingredients[k].quantity_unit
                       = app.context.ingredients[k].quantity_unit
       /\ app.pc \in {"create_recipe", "done", "error", "not_saved", "cancelled"} =>
            app'.pc \in {"create_recipe", "done", "error", "not_saved", "cancelled"}
       /\ app.pc = "saving" => app'.pc \in {"saving", "create_recipe", "error"}
       /\ app'.pos \in {app.pos, app.pos + 1}
      ]_vars

\* C18 witness: main has saved a finished context of two entries and a step
C18_Witness ==
    /\ app.pc = "done"
    /\ app.action = "SaveAndExit"
    /\ app.pos = 2
    /\ Len(app.context.instructions) = 1
    /\ Len(recipes) = 1

\* C19: from the moment main has started its session, the store is written, and a
\* transaction is opened, only when the session has ended with SaveAndExit on a
\* context whose name is not empty; a session that ended otherwise (cancelled, or
\* finished without a name) leaves the catalog, the recipes and the links as they
\* were, and creates no catalog row for its New entries.
C19_NoWriteWithoutName ==
    [][/\ (/\ app.pc # "start"
           /\ \/ ingredients' # ingredients
              \/ recipes' # recipes
              \/ recipe_ingredients' # recipe_ingredients
              \/ tx' # tx)
          => /\ app.action = "SaveAndExit"
             /\ app.context.finished
             /\ Len(app.context.name) > 0
       /\ (app.action = "SaveAndExit" /\ Len(app.context.name) = 0) =>
            /\ app.pc = "not_saved"
            /\ app'.new_ids = {}
            /\ UNCHANGED <<ingredients, recipes, recipe_ingredients, tx>>
      ]_vars

\* C19 witness: a finished context without a name, with a New entry and a step;
\* main has ended and the store has neither the ingredient nor a recipe
C19_Witness ==
    /\ app.pc = "not_saved"
    /\ app.context.finished
    /\ Len(app.context.instructions) > 0
    /\ \E k \in 1..Len(app.context.ingredients) :
          /\ app.context.ingredients[k].status = New
          /\ ~HasName(ingredients, app.context.ingredients[k].name)
    /\ recipes = <<>>
    /\ recipe_ingredients = <<>>

\* the entry main's loop over context.ingredients is at
CurrentEntry == app.context.ingredients[app.pos + 1]

\* C20: when main comes to create the catalog row of an entry it had classified as
\* New from its snapshot and another session has created a row of that name since,
\* its create_ingredient fails on the unique constraint and adds no row, so that
\* the name has exactly one row, the other session's; main ends in error at once:
\* it makes no further call, opens no transaction and no recipe row or link row of
\* its recipe is ever in the store.
C20_SecondSessionFails ==
    [][/\ (/\ app.pc = "saving" /\ app' # app
           /\ app.pos < Len(app.context.ingredients)
           /\ CurrentEntry.status = New
           /\ HasName(ingredients, CurrentEntry.name))
          => /\ CurrentEntry.name \notin DOMAIN app.context.possible_ingredients
             /\ app'.pc = "error"
             /\ ret' = [op |-> "create_ingredient", arg |-> CurrentEntry.name,
                        val |-> ErrDatabase("unique")]
             /\ ingredients' = ingredients
             /\ Cardinality({i \in 1..Len(ingredients') :
                                ingredients'[i].name = CurrentEntry.name}) = 1
             /\ \A i \in Rows(ingredients') :
                   i.name = CurrentEntry.name => i.id \notin app'.new_ids
       /\ app.pc = "error" =>
             /\ app' = app
             /\ tx'.pc # "none" => tx'.caller # "main"
             /\ \A r \in Rows(recipes') : r.name # app.context.name
             /\ \A l \in Rows(recipe_ingredients') :
                   \E r \in Rows(recipes') : r.id = l.recipe_id
      ]_vars

\* C20 witness: main has failed on the name another session created after main's
\* snapshot, and that session has committed its recipe with a link to the row
C20_Witness ==
    /\ app.pc = "error"
    /\ app.pos < Len(app.context.ingredients)
    /\ CurrentEntry.status = New
    /\ \E i \in Rows(ingredients), l \in Rows(recipe_ingredients) :
          /\ i.name = CurrentEntry.name
          /\ i.id \notin app.new_ids
          /\ l.ingredient_id = i.id
    /\ \A r \in Rows(recipes) : r.name # app.context.name

\* the references of a create_recipe input that the JOIN with ingredients keeps
JoinableRefs(recipe) ==
    {k \in 1..Len(recipe.ingredients) :
        \E i \in Rows(ingredients) : i.id = recipe.ingredients[k].ingredient_id}

\* the rows a shopping-list read has fetched that are link rows of a recipe id,
\* committed or written by the transaction in flight
ObservedOf(rows, recipe_id) ==
    {k \in 1..Len(rows) :
        \E l \in Rows(recipe_ingredients \o TxLinkRows) :
           l.id = rows[k].id /\ l.recipe_id = recipe_id}

\* the reading client's call returns in this step
ReaderReturns(op) ==
    /\ reader.pc \in {"ingredients", "shopping"}
    /\ reader'.pc = "done"
    /\ reader'.op = op
    /\ reader'.val.ok

\* C21: whatever the statements of create_recipe calls a read is interleaved with,
\* a get_recipe that returns a recipe returns the recipe of a committed call with
\* every link row of that call (every one the JOIN keeps, in input order), and a
\* generate_shopping_list has fetched, of each recipe id, either no link row (the
\* id is not asked for, or no call has committed it) or every link row of the call
\* that committed it; no row of a transaction in flight is ever read.
C21_NoPartialRecipe ==
    [][/\ ReaderReturns("get_recipe") =>
            /\ reader'.arg \in 1..Len(created)
            /\ reader'.val.v.name = created[reader'.arg].name
            /\ reader'.val.v.instructions = created[reader'.arg].instructions
            /\ Len(reader'.val.v.ingredients)
                 = Cardinality(JoinableRefs(created[reader'.arg]))
            /\ RefsExist(created[reader'.arg]) =>
                  reader'.val.v.ingredients = created[reader'.arg].ingredients
       /\ ReaderReturns("generate_shopping_list") =>
            \A recipe_id \in 1..(MaxRecipes + 1) :
               Cardinality(ObservedOf(reader'.rows, recipe_id)) =
                  IF recipe_id \in Range(reader'.arg) /\ recipe_id \in 1..Len(created)
                  THEN Cardinality(JoinableRefs(created[recipe_id]))
                  ELSE 0
      ]_vars

\* C21 witness: get_recipe has returned recipe 1 with its link row while the
\* transaction of a second create_recipe holds an uncommitted recipe row and link row
C21_Witness ==
    /\ reader.pc = "done"
    /\ reader.op = "get_recipe"
    /\ reader.val.ok
    /\ Len(reader.val.v.ingredients) = 1
    /\ tx.pc = "links"
    /\ tx.recipe_id = 2
    /\ Len(tx.link_rows) = 1

\* C22: the catalog is append-only. In every step, of create_ingredient (failed or
\* not), of create_recipe (committed or rolled back) and of the importer, every
\* row of the catalog stays where it was with the id and the name it had; the
\* catalog changes only by one row added behind the others, of a new id.
C22_CatalogAppendOnly ==
    [][/\ Len(ingredients') >= Len(ingredients)
       /\ \A k \in 1..Len(ingredients) : ingredients'[k] = ingredients[k]
       /\ \A r \in Rows(ingredients) :
             \E q \in Rows(ingredients') : q.id = r.id /\ q.name = r.name
       /\ ingredients' # ingredients =>
             /\ Len(ingredients') = Len(ingredients) + 1
             /\ \A r \in Rows(ingredients) : r.id # ingredients'[Len(ingredients')].id
      ]_vars

\* C22 witness: a catalog of two rows, the second added by the importer after a
\* recipe that refers to the first was committed, and a failed create_recipe since
C22_Witness ==
    /\ Len(ingredients) = 2
    /\ ingredients[2].id \in app.new_ids
    /\ \E l \in Rows(recipe_ingredients) : l.ingredient_id = ingredients[1].id
    /\ ret.op = "create_recipe"
    /\ ~ret.val.ok

\* C23: get_all_ingredients returns every row of the catalog exactly once, in
\* ascending order of name whatever the order the rows were created in; for an
\* empty catalog it returns the empty sequence.
C23_AllIngredientsByName ==
    ret.op = "get_all_ingredients" =>
       /\ ret.val.ok
       /\ Len(ret.val.v) = Len(ingredients)
       /\ \A r \in Rows(ingredients) :
             Cardinality({k \in 1..Len(ret.val.v) : ret.val.v[k] = r}) = 1
       /\ \A i, j \in 1..Len(ret.val.v) :
             i < j => StrLess(ret.val.v[i].name, ret.val.v[j].name)
       /\ ingredients = <<>> => ret.val.v = <<>>

\* C23 witness: "b" was created before "a", and the call has returned "a" (id 2)
\* before "b" (id 1)
C23_Witness ==
    /\ ret.op = "get_all_ingredients"
    /\ ingredients = <<[id |-> 1, name |-> <<98>>], [id |-> 2, name |-> <<97>>]>>
    /\ ret.val.v = <<[id |-> 2, name |-> <<97>>], [id |-> 1, name |-> <<98>>]>>

\* C24: Enter in IngredientList with the input b leaves the context as it was and
\* goes to Instructions when b is empty; stays in IngredientList when b is a key of
\* context.ingredients; goes to IngredientQuantity carrying b and Existing(id) when
\* the snapshot knows b under id; goes to ConfirmIngredient carrying b otherwise.
\* IngredientQuantity is entered only with a name the snapshot knows, from
\* IngredientList, or with the name of a ConfirmIngredient, from that state.
C24_IngredientListSubmit ==
    [][/\ (KeyStep(KeyEnter) /\ app.state.tag = "IngredientList") =>
            LET b == app.state.current_input
                known == app.context.possible_ingredients
            IN /\ app'.context = app.context
               /\ IF b = <<>>
                  THEN app'.state = [tag |-> "Instructions", current_input |-> <<>>]
                  ELSE IF \E k \in 1..Len(app.context.ingredients) :
                             app.context.ingredients[k].name = b
                  THEN app'.state.tag = "IngredientList"
                  ELSE IF b \in DOMAIN known
                  THEN app'.state = [tag |-> "IngredientQuantity", ingredient |-> b,
                                     current_input |-> <<>>,
                                     status |-> [tag |-> "Existing", id |-> known[b]]]
                  ELSE app'.state = [tag |-> "ConfirmIngredient", ingredient |-> b]
       /\ (app'.state.tag = "IngredientQuantity" /\ app.state.tag # "IngredientQuantity") =>
            \/ /\ app.state.tag = "IngredientList"
               /\ app'.state.ingredient \in DOMAIN app.context.possible_ingredients
               /\ app'.state.status.tag = "Existing"
            \/ /\ app.state.tag = "ConfirmIngredient"
               /\ app'.state.ingredient = app.state.ingredient
               /\ app'.state.status.tag = "New"
      ]_vars

\* C24 witness: with the entry of a known name in the context, a name the snapshot
\* does not know was submitted and is held by ConfirmIngredient
C24_Witness ==
    /\ app.pc = "wizard"
    /\ app.state.tag = "ConfirmIngredient"
    /\ app.key = KeyEnter
    /\ app.state.ingredient \notin DOMAIN app.context.possible_ingredients
    /\ Len(app.context.ingredients) = 1
    /\ app.context.ingredients[1].status.tag = "Existing"

\* the keys tried on ConfirmIngredient: the answers in both cases and other keys
ConfirmKeys ==
    {KeyChar(121), KeyChar(89), KeyChar(110), KeyChar(78), KeyChar(97), KeyChar(32),
     KeyEnter, KeyBackspace, KeyTab}

\* C25: in ConfirmIngredient, y or Y goes to IngredientQuantity with the name held,
\* the status New and an empty input; n or N goes to a fresh IngredientList (empty
\* input, no message); every other key but Esc leaves the state as it is; the
\* context is unchanged by all of them. The steps the wizard takes in that state
\* are these.
C25_Confirm ==
    [][(app.pc = "wizard" /\ app.state.tag = "ConfirmIngredient") =>
          /\ \A key \in ConfirmKeys :
                LET r == handle_key(app.state, app.context, key) IN
                /\ r.context = app.context
                /\ r.action = "Continue"
                /\ r.state =
                     IF key \in {KeyChar(121), KeyChar(89)}
                     THEN [tag |-> "IngredientQuantity",
                           ingredient |-> app.state.ingredient,
                           current_input |-> <<>>,
                           status |-> [tag |-> "New", id |-> 0]]
                     ELSE IF key \in {KeyChar(110), KeyChar(78)}
                     THEN [tag |-> "IngredientList", current_input |-> <<>>,
                           error_message |-> <<>>]
                     ELSE app.state
          /\ \A key \in ConfirmKeys :
                KeyStep(key) =>
                   LET r == handle_key(app.state, app.context, key) IN
                   app'.state = r.state /\ app'.context = r.context
      ]_vars

\* C25 witness: the name "b" was confirmed with y and IngredientQuantity holds it as
\* New, after an earlier unknown name had been refused with N
C25_Witness ==
    /\ app.pc = "wizard"
    /\ app.state = [tag |-> "IngredientQuantity", ingredient |-> <<98>>,
                    current_input |-> <<>>, status |-> [tag |-> "New", id |-> 0]]
    /\ app.key = KeyChar(121)
    /\ \E k \in 1..Len(app.entered) : app.entered[k] = <<78>>

\* C26: Enter in Instructions on a non-empty input appends the input as the last
\* element of context.instructions, clears the input, stays in Instructions and
\* leaves finished (and the rest of the context) as it was; Enter on an empty input
\* changes nothing but finished, and not the state.
C26_InstructionsSubmit ==
    [][(KeyStep(KeyEnter) /\ app.state.tag = "Instructions") =>
          IF app.state.current_input # <<>>
          THEN /\ app'.context =
                    [app.context EXCEPT
                        !.instructions = Append(@, app.state.current_input)]
               /\ app'.context.instructions[Len(app'.context.instructions)]
                    = app.state.current_input
               /\ app'.state = [tag |-> "Instructions", current_input |-> <<>>]
               /\ app'.context.finished = app.context.finished
               /\ \A fin \in BOOLEAN :
                     handle_key(app.state, [app.context EXCEPT !.finished = fin],
                                KeyEnter).context.finished = fin
          ELSE /\ app'.state = app.state
               /\ app'.context = [app.context EXCEPT !.finished = TRUE]
      ]_vars

\* C26 witness: two steps were submitted, the second behind the first, and the
\* wizard is still in Instructions with an empty input, not finished
C26_Witness ==
    /\ app.pc = "wizard"
    /\ app.state = [tag |-> "Instructions", current_input |-> <<>>]
    /\ app.key = KeyEnter
    /\ Len(app.context.instructions) = 2
    /\ ~app.context.finished

\* the fields of the context that differ between two contexts
ChangedFields(c, d) ==
    {f \in {"name", "ingredients", "instructions", "finished", "possible_ingredients"} :
        c[f] # d[f]}

\* one call of handle_key has changed the context c into d by at most one mutation
OneMutation(c, d) ==
    /\ Cardinality(ChangedFields(c, d)) <= 1
    /\ d.possible_ingredients = c.possible_ingredients
    /\ Len(d.ingredients) \in {Len(c.ingredients), Len(c.ingredients) + 1}
    /\ Len(d.instructions) \in {Len(c.instructions), Len(c.instructions) + 1}

\* the state a handler hands back for a state of each type: the X::new it boxes
Transitions ==
    {<<"RecipeName", "IngredientList">>,
     <<"IngredientList", "Instructions">>,
     <<"IngredientList", "IngredientQuantity">>,
     <<"IngredientList", "ConfirmIngredient">>,
     <<"ConfirmIngredient", "IngredientQuantity">>,
     <<"ConfirmIngredient", "IngredientList">>,
     <<"IngredientQuantity", "IngredientNotes">>,
     <<"IngredientNotes", "IngredientList">>}

\* one call of handle_key has left the state s in place or replaced it once
OneTransition(s, t) == s.tag = t.tag \/ <<s.tag, t.tag>> \in Transitions

\* C27: one key makes at most one state transition and at most one mutation of the
\* context: the state stays or is replaced by a state its handler constructs, and
\* of name, ingredients, instructions and finished at most one changes in a call
\* of handle_key, ingredients and instructions growing by at most one element. So
\* it is in every step the wizard takes and for every key that could be pressed in
\* a state it is in.
C27_OneMutationPerKey ==
    [][app.pc = "wizard" =>
          /\ OneMutation(app.context, app'.context)
          /\ OneTransition(app.state, app'.state)
          /\ \A key \in AllKeys \cup ConfirmKeys :
                LET r == handle_key(app.state, app.context, key) IN
                OneMutation(app.context, r.context) /\ OneTransition(app.state, r.state)
      ]_vars

\* C27 witness: name, ingredients, instructions and finished have each been changed,
\* by four different keys
C27_Witness ==
    /\ app.context.finished
    /\ Len(app.context.name) > 0
    /\ Len(app.context.ingredients) = 2
    /\ Len(app.context.instructions) = 2

\* C28: the duplicate-name message of IngredientList is set only by Enter on a
\* non-empty name that is a key of context.ingredients, and is then the message
\* of that name; it is absent after any character or Backspace typed in
\* IngredientList, and absent, with an empty input, in every IngredientList the
\* wizard enters from another state.
C28_DuplicateMessage ==
    [][/\ (/\ app'.state.tag = "IngredientList"
           /\ app'.state.error_message # <<>>
           /\ (app.state.tag # "IngredientList"
                  \/ app.state.error_message # app'.state.error_message))
          => /\ KeyStep(KeyEnter)
             /\ app.state.tag = "IngredientList"
             /\ app.state.current_input # <<>>
             /\ \E k \in 1..Len(app.context.ingredients) :
                   app.context.ingredients[k].name = app.state.current_input
             /\ app'.state.error_message =
                   <<(<<39>> \o app.state.current_input \o
                      <<39, 32, 97, 108, 114, 101, 97, 100, 121,
                        32, 97, 100, 100, 101, 100>>)>>
       /\ (app.pc = "wizard" /\ app.state.tag = "IngredientList") =>
             /\ \A key \in {KeyChar(97), KeyChar(98), KeyChar(32), KeyBackspace} :
                   handle_key(app.state, app.context, key).state.error_message = <<>>
             /\ (app' # app /\ app'.key.code \in {"Char", "Backspace"}) =>
                   /\ app'.state.tag = "IngredientList"
                   /\ app'.state.error_message = <<>>
       /\ (app.state.tag # "IngredientList" /\ app'.state.tag = "IngredientList") =>
             app'.state = [tag |-> "IngredientList", current_input |-> <<>>,
                           error_message |-> <<>>]
      ]_vars

\* C28 witness: the message set by submitting "a" again has been cleared by a
\* Backspace on the empty input
C28_Witness ==
    /\ app.pc = "wizard"
    /\ app.state = [tag |-> "IngredientList", current_input |-> <<>>,
                    error_message |-> <<>>]
    /\ app.key = KeyBackspace
    /\ Len(app.entered) > 1
    /\ app.entered[Len(app.entered)] = <<97>>
    /\ \E k \in 1..Len(app.context.ingredients) :
          app.context.ingredients[k].name = <<97>>

\* the states that own a text buffer
BufferStates ==
    {"RecipeName", "IngredientList", "IngredientQuantity", "IngredientNotes", "Instructions"}

\* the characters typed at the buffer, among them the answers of ConfirmIngredient
BufferChars == {97, 32, 121, 110}

\* the state s with the buffer b and, in IngredientList, no message (C28); every
\* other field, the ingredient, status and quantity_unit among them, as in s
WithBuffer(s, b) ==
    IF s.tag = "IngredientList"
    THEN [s EXCEPT !.current_input = b, !.error_message = <<>>]
    ELSE [s EXCEPT !.current_input = b]

\* C29: in RecipeName, IngredientList, IngredientQuantity, IngredientNotes and
\* Instructions a character key appends the character to the state's input and
\* Backspace removes the last character of the input, none of an empty one; the
\* context, the type of the state and the ingredient, status and quantity_unit it
\* carries are unchanged (in IngredientList the message is cleared as well, C28), and
\* the action is Continue.
C29_BufferEdits ==
    [][(app.pc = "wizard" /\ app.state.tag \in BufferStates) =>
          LET b == app.state.current_input
              back == handle_key(app.state, app.context, KeyBackspace)
          IN /\ back.context = app.context
             /\ back.action = "Continue"
             /\ back.state =
                  WithBuffer(app.state,
                             IF b = <<>> THEN <<>> ELSE SubSeq(b, 1, Len(b) - 1))
             /\ \A c \in BufferChars :
                   LET r == handle_key(app.state, app.context, KeyChar(c))
                       undo == handle_key(r.state, r.context, KeyBackspace)
                   IN /\ r.context = app.context
                      /\ r.action = "Continue"
                      /\ r.state = WithBuffer(app.state, b \o <<c>>)
                      /\ undo.state = WithBuffer(app.state, b)
                      /\ undo.context = app.context
             /\ (app' # app /\ app'.key.code \in {"Char", "Backspace"}) =>
                   /\ app'.context = app.context
                   /\ app'.state.tag = app.state.tag
                   /\ app'.state =
                        WithBuffer(app.state,
                                   IF app'.key.code = "Char" THEN b \o <<app'.key.c>>
                                   ELSE IF b = <<>> THEN <<>>
                                   ELSE SubSeq(b, 1, Len(b) - 1))
      ]_vars

\* C29 witness: in IngredientNotes, carrying a known ingredient and a quantity, the
\* character x has been typed into the input
C29_Witness ==
    /\ app.pc = "wizard"
    /\ app.state.tag = "IngredientNotes"
    /\ app.state.status.tag = "Existing"
    /\ app.state.quantity_unit = <<50>>
    /\ app.state.current_input = <<120>>
    /\ app.key = KeyChar(120)

\* the keys of the samples and Tab
TriedKeys == AllKeys \cup ConfirmKeys \cup {KeyChar(c) : c \in BufferChars}

\* the keys for which the handler of a state has no arm but the last (_ => None)
Unmapped(tag) ==
    IF tag = "ConfirmIngredient"
    THEN {key \in TriedKeys :
             key # KeyEsc /\ ~(key.code = "Char" /\ key.c \in {121, 89, 110, 78})}
    ELSE {KeyTab}

\* C30: the wizard never fails and is deterministic. In every reachable state and
\* context, handle_key gives for every key a state of one of the six types, a
\* context and one of the three actions - CancelAndExit for Esc and for no other
\* key, SaveAndExit when the context it leaves is finished; the step main takes is
\* the one handle_key gives for the state, the context and the key, whatever else
\* main and the store hold; a key the state has no arm for leaves the state and
\* the context as they are and continues.
C30_TotalDeterministic ==
    [][app.pc = "wizard" =>
          /\ \A key \in TriedKeys :
                LET r == handle_key(app.state, app.context, key) IN
                /\ r.state.tag \in BufferStates \cup {"ConfirmIngredient"}
                /\ r.action \in {"Continue", "SaveAndExit", "CancelAndExit"}
                /\ (r.action = "CancelAndExit") <=> (key = KeyEsc)
                /\ (r.action = "SaveAndExit") <=> (key # KeyEsc /\ r.context.finished)
                /\ DOMAIN r.context = DOMAIN app.context
          /\ \A key \in Unmapped(app.state.tag) :
                handle_key(app.state, app.context, key)
                   = [state |-> app.state, context |-> app.context,
                      action |-> "Continue"]
          /\ app' # app =>
                /\ app'.key \in TriedKeys
                /\ [state |-> app'.state, context |-> app'.context,
                    action |-> app'.action]
                      = handle_key(app.state, app.context, app'.key)
      ]_vars

\* C30 witness: Tab was pressed in IngredientList with "b" typed, two entries in the
\* context, and the input is as it was
C30_Witness ==
    /\ app.pc = "wizard"
    /\ app.key = KeyTab
    /\ app.state = [tag |-> "IngredientList", current_input |-> <<98>>,
                    error_message |-> <<>>]
    /\ Len(app.context.ingredients) = 2

\* C31: context.name is empty in the context RecipeApp::new makes and is written
\* only by Enter in RecipeName, which copies the input, empty or not, into it and
\* goes to a fresh IngredientList; no state hands back a RecipeName, so the name
\* never changes after that Enter, whatever key is pressed.
C31_NameWrittenOnce ==
    [][/\ (app.pc = "start" /\ app'.pc = "wizard") =>
             app'.context.name = <<>> /\ app'.state.tag = "RecipeName"
       /\ (KeyStep(KeyEnter) /\ app.state.tag = "RecipeName") =>
             /\ app'.context = [app.context EXCEPT !.name = app.state.current_input]
             /\ app'.state = [tag |-> "IngredientList", current_input |-> <<>>,
                              error_message |-> <<>>]
       /\ (app.pc = "wizard" /\ app'.context.name # app.context.name) =>
             KeyStep(KeyEnter) /\ app.state.tag = "RecipeName"
       /\ (app.pc = "wizard" /\ app.state.tag # "RecipeName") =>
             /\ app'.state.tag # "RecipeName"
             /\ app'.context.name = app.context.name
             /\ \A key \in TriedKeys :
                   LET r == handle_key(app.state, app.context, key) IN
                   r.state.tag # "RecipeName" /\ r.context.name = app.context.name
      ]_vars

\* C31 witness: the empty name was submitted, and the wizard has since taken an
\* ingredient and a step
C31_Witness ==
    /\ app.pc = "wizard"
    /\ Len(app.entered) > 0
    /\ app.entered[1] = <<>>
    /\ app.context.name = <<>>
    /\ Len(app.context.ingredients) = 1
    /\ Len(app.context.instructions) = 1

\* C32: whenever context.finished is true the state is Instructions. Instructions
\* is entered only from IngredientList, by Enter on an empty input, and
\* IngredientList first from RecipeName, so handle_key has returned SaveAndExit only
\* after at least three submissions (the name, the empty ingredient name, the empty
\* step), and it returns SaveAndExit for no key while RecipeName, IngredientList,
\* ConfirmIngredient, IngredientQuantity or IngredientNotes is the state.
C32_FinishedInInstructions ==
    [][/\ app'.context.finished => app'.state.tag = "Instructions"
       /\ app'.action = "SaveAndExit" =>
             /\ app'.context.finished
             /\ app'.state.tag = "Instructions"
             /\ Len(app'.entered) >= 3
             /\ app'.entered[Len(app'.entered)] = <<>>
       /\ (app'.state.tag = "Instructions" /\ app.state.tag # "Instructions") =>
             /\ KeyStep(KeyEnter)
             /\ app.state.tag = "IngredientList"
             /\ app.state.current_input = <<>>
             /\ Len(app.entered) >= 1
       /\ (app'.state.tag = "IngredientList" /\ app.state.tag = "RecipeName") =>
             KeyStep(KeyEnter) /\ Len(app'.entered) = 1
       /\ (app.pc = "wizard" /\ app.state.tag # "Instructions") =>
             \A key \in TriedKeys :
                LET r == handle_key(app.state, app.context, key) IN
                r.action # "SaveAndExit" /\ ~r.context.finished
      ]_vars

\* C32 witness: SaveAndExit was returned after exactly three submissions, each an
\* Enter on an empty input
C32_Witness ==
    /\ app.action = "SaveAndExit"
    /\ app.entered = << <<>>, <<>>, <<>> >>
    /\ app.state.tag = "Instructions"

\* C33: whenever the state is ConfirmIngredient, IngredientQuantity or
\* IngredientNotes, the ingredient name it carries is not empty and is not a key of
\* context.ingredients.
C33_CarriedNameIsNew ==
    app.state.tag \in {"ConfirmIngredient", "IngredientQuantity", "IngredientNotes"} =>
       /\ app.state.ingredient # <<>>
       /\ \A k \in 1..Len(app.context.ingredients) :
             app.context.ingredients[k].name # app.state.ingredient

\* C33 witness: IngredientNotes carries a confirmed new name while the context holds
\* the entry of another name
C33_Witness ==
    /\ app.pc = "wizard"
    /\ app.state.tag = "IngredientNotes"
    /\ app.state.status.tag = "New"
    /\ Len(app.context.ingredients) = 1

\* C34: the snapshot possible_ingredients is what the catalog held when main made
\* the app and no key changes it; the status of every entry of context.ingredients
\* agrees with it: Existing(id) if and only if the snapshot has the entry's name,
\* with that id, and New if and only if it does not have the name.
C34_StatusAgreesWithSnapshot ==
    [][/\ (app.pc = "start" /\ app'.pc = "wizard") =>
             /\ DOMAIN app'.context.possible_ingredients
                  = {r.name : r \in Rows(ingredients)}
             /\ \A r \in Rows(ingredients) :
                   app'.context.possible_ingredients[r.name] = r.id
       /\ app.pc # "start" =>
             app'.context.possible_ingredients = app.context.possible_ingredients
       /\ \A k \in 1..Len(app'.context.ingredients) :
             LET e == app'.context.ingredients[k]
                 known == app'.context.possible_ingredients
             IN /\ e.status.tag \in {"Existing", "New"}
                /\ (e.status.tag = "Existing") <=> (e.name \in DOMAIN known)
                /\ e.status.tag = "Existing" => e.status.id = known[e.name]
                /\ (e.status = [tag |-> "New", id |-> 0]) <=> (e.name \notin DOMAIN known)
      ]_vars

\* C34 witness: with "b" (id 1) alone in the snapshot, the context holds "a" as New
\* and "b" as Existing(1)
C34_Witness ==
    /\ app.pc = "wizard"
    /\ DOMAIN app.context.possible_ingredients = {<<98>>}
    /\ Len(app.context.ingredients) = 2
    /\ app.context.ingredients[1].name = <<97>>
    /\ app.context.ingredients[1].status.tag = "New"
    /\ app.context.ingredients[2].status = [tag |-> "Existing", id |-> 1]

\* C35: the phases of the wizard do not overlap. context.instructions is empty
\* whenever the state is not Instructions, and once the state is Instructions no
\* key replaces it, so that context.name and context.ingredients never change
\* again.
C35_PhasesDoNotOverlap ==
    [][/\ app'.state.tag # "Instructions" => app'.context.instructions = <<>>
       /\ app.state.tag = "Instructions" =>
             /\ app'.state.tag = "Instructions"
             /\ app'.context.name = app.context.name
             /\ app'.context.ingredients = app.context.ingredients
             /\ \A key \in TriedKeys :
                   LET r == handle_key(app.state, app.context, key) IN
                   /\ r.state.tag = "Instructions"
                   /\ r.context.name = app.context.name
                   /\ r.context.ingredients = app.context.ingredients
      ]_vars

\* C35 witness: in Instructions, with an entry and a step in the context, Backspace
\* was pressed on the empty input and the state is still Instructions
C35_Witness ==
    /\ app.pc = "wizard"
    /\ app.state = [tag |-> "Instructions", current_input |-> <<>>]
    /\ app.key = KeyBackspace
    /\ Len(app.context.ingredients) = 1
    /\ Len(app.context.instructions) = 1

\* C36: in every context the wizard reaches, every key of context.ingredients and
\* every element of context.instructions is a non-empty text: an Enter on an empty
\* input ends the ingredients, or the session, and stores nothing.
C36_NoEmptyEntries ==
    /\ \A k \in 1..Len(app.context.ingredients) : app.context.ingredients[k].name # <<>>
    /\ \A k \in 1..Len(app.context.instructions) : app.context.instructions[k] # <<>>

\* C36 witness: a finished context without a name, with one entry and one step; the
\* two empty submissions that ended the ingredients and the session are not in it
C36_Witness ==
    /\ app.context.finished
    /\ app.context.name = <<>>
    /\ Len(app.context.ingredients) = 1
    /\ Len(app.context.instructions) = 1
    /\ Cardinality({k \in 1..Len(app.entered) : app.entered[k] = <<>>}) >= 3

\* the entries of the context that main has to create a catalog row for
NewEntries(context) ==
    {k \in 1..Len(context.ingredients) : context.ingredients[k].status.tag = "New"}

\* C37: while main saves a finished context it goes through the entries once, in
\* their order, the names being distinct; for an entry that is New it calls
\* create_ingredient with the entry's name, for an Existing one it makes no call
\* and leaves the catalog alone. create_recipe is called only once every entry has
\* been gone through, with one catalog row created for each New entry, and after
\* that no entry is gone through again; a create_ingredient that fails ends main,
\* with no transaction opened by it then or later.
C37_CreateIngredientPerNewEntry ==
    [][/\ (app.pc = "saving" /\ app' # app) =>
             /\ \A i, j \in 1..Len(app.context.ingredients) :
                   i # j => app.context.ingredients[i].name
                              # app.context.ingredients[j].name
             /\ app'.context = app.context
             /\ IF app.pos < Len(app.context.ingredients)
                THEN /\ tx' = tx
                     /\ app'.pc \in {"saving", "error"}
                     /\ IF CurrentEntry.status.tag = "New"
                        THEN /\ ret'.op = "create_ingredient"
                             /\ ret'.arg = CurrentEntry.name
                             /\ ret'.val.ok =>
                                   /\ app'.pc = "saving"
                                   /\ app'.pos = app.pos + 1
                                   /\ app'.new_ids = app.new_ids \cup {ret'.val.v}
                                   /\ ret'.val.v \notin app.new_ids
                             /\ ~ret'.val.ok =>
                                   /\ app'.pc = "error"
                                   /\ ingredients' = ingredients
                        ELSE /\ app'.pc = "saving"
                             /\ app'.pos = app.pos + 1
                             /\ app'.new_ids = app.new_ids
                             /\ ingredients' = ingredients
                             /\ ret' = ret
                ELSE /\ app'.pc = "create_recipe"
                     /\ tx'.pc = "begun" /\ tx'.caller = "main"
                     /\ ingredients' = ingredients
                     /\ Cardinality(app.new_ids) = Cardinality(NewEntries(app.context))
                     /\ Len(app.recipe_ingredients) = Len(app.context.ingredients)
       /\ (tx'.pc = "begun" /\ tx'.caller = "main") =>
             (tx.pc = "begun" /\ tx.caller = "main")
                \/ (app.pc = "saving" /\ app.pos = Len(app.context.ingredients))
       /\ app.pc \in {"create_recipe", "done", "error"} =>
             /\ app'.pc # "saving"
             /\ app'.pos = app.pos
             /\ app'.new_ids = app.new_ids
             /\ app.pc \in {"done", "error"} => app' = app
             /\ (app.pc \in {"done", "error"} /\ tx'.pc # "none") => tx'.caller # "main"
      ]_vars

\* C37 witness: main has saved a context whose first entry was Existing and whose
\* second was New: one catalog row created, after the first entry was gone through
C37_Witness ==
    /\ app.pc = "done"
    /\ Len(app.context.ingredients) = 2
    /\ app.context.ingredients[1].status.tag = "Existing"
    /\ app.context.ingredients[2].status.tag = "New"
    /\ Cardinality(app.new_ids) = 1
    /\ app.recipe_ingredients[2].ingredient_id \in app.new_ids

\* C38: from the moment main has taken its snapshot, every name of the snapshot has,
\* whatever other sessions create or save meanwhile, a catalog row of that name
\* with the id the snapshot gives it, and so has every entry that is Existing(id).
\* Once main has saved its context, the recipe has one link row for each entry, in
\* entry order, each referring to the catalog row whose name is the entry's name,
\* and get_recipe returns as many ingredients as the context has entries, under
\* those names.
C38_SnapshotStaysValid ==
    /\ app.pc # "start" =>
          /\ \A n \in DOMAIN app.context.possible_ingredients :
                \E r \in Rows(ingredients) :
                   r.id = app.context.possible_ingredients[n] /\ r.name = n
          /\ \A k \in 1..Len(app.context.ingredients) :
                LET e == app.context.ingredients[k] IN
                e.status.tag = "Existing" =>
                   \E r \in Rows(ingredients) : r.id = e.status.id /\ r.name = e.name
    /\ app.pc = "done" =>
          LET links == LinksOf(recipe_ingredients, SavedRecipe.id)
              entries == app.context.ingredients
              got == get_recipe(ingredients, recipes, recipe_ingredients, SavedRecipe.id)
          IN /\ Len(links) = Len(entries)
             /\ \A k \in 1..Len(entries) :
                   /\ \E r \in Rows(ingredients) :
                         r.id = links[k].ingredient_id /\ r.name = entries[k].name
                   /\ entries[k].status.tag = "Existing" =>
                         links[k].ingredient_id = entries[k].status.id
             /\ got.ok
             /\ Len(got.v.ingredients) = Len(entries)
             /\ \A k \in 1..Len(entries) :
                   got.v.ingredients[k].ingredient_name = entries[k].name

\* C38 witness: main has saved an entry that is Existing; since its snapshot another
\* session has created a catalog row and saved a recipe of its own
C38_Witness ==
    /\ app.pc = "done"
    /\ Len(app.context.ingredients) = 1
    /\ app.context.ingredients[1].status.tag = "Existing"
    /\ \E r \in Rows(ingredients) :
          r.name \notin DOMAIN app.context.possible_ingredients /\ r.id \notin app.new_ids
    /\ \E r \in Rows(recipes) : r.name = <<87>>

\* the ids of a slice that are ids of recipes
KnownIds(recipe_ids) == Range(recipe_ids) \cap {r.id : r \in Rows(recipes)}

\* C39: the result of generate_shopping_list depends only on the set of ids given,
\* and of those only on the ids of recipes: it is Ok, and every slice with the same
\* ids of recipes - an id repeated or not, ids of no recipe among them or not, in
\* whatever order the map hands out its entries - gives the same list; no
\* combined_quantity has more parts than the requested recipes have link rows of
\* the name.
C39_DependsOnIdSet ==
    ret.op = "generate_shopping_list" =>
       /\ ret.val.ok
       /\ \A ids \in IdLists :
             KnownIds(ids) = KnownIds(ret.arg) =>
                \A order \in MapOrders(ingredients, recipe_ingredients, ids) :
                   generate_shopping_list(ingredients, recipe_ingredients, ids, order)
                      = ret.val.v
       /\ \A k \in 1..Len(ret.val.v) :
             ret.val.v[k].combined_quantity
                = Join(QuantitiesOf(LinksOfName(ret.arg, ret.val.v[k].ingredient_name)),
                       PlusSep)

\* C39 witness: the list of an id of no recipe followed by the id of a recipe with
\* two link rows of one name, which is the list of that recipe alone
C39_Witness ==
    /\ ret.op = "generate_shopping_list"
    /\ ret.arg = <<3, 1>>
    /\ Len(ret.val.v) = 1
    /\ Cardinality(LinksOfName(<<1>>, ret.val.v[1].ingredient_name)) = 2
    /\ \A r \in Rows(recipes) : r.id # 3

\* the key of the strategy: n when ConfirmIngredient asks, Enter otherwise
StrategyKey(state) == IF state.tag = "ConfirmIngredient" THEN KeyChar(110) ELSE KeyEnter

\* the number of keys of the strategy after which handle_key returns SaveAndExit,
\* counted up to a budget; one more than the budget if it has not by then
RECURSIVE KeysToFinish(_, _, _)
KeysToFinish(state, context, budget) ==
    IF budget = 0 THEN 1
    ELSE LET r == handle_key(state, context, StrategyKey(state)) IN
         IF r.action = "SaveAndExit" /\ r.context.finished THEN 1
         ELSE 1 + KeysToFinish(r.state, r.context, budget - 1)

\* C40: the wizard has no dead end. From every state and context it reaches with
\* finished false, pressing n when ConfirmIngredient is the state and Enter
\* otherwise makes handle_key return SaveAndExit, with finished true, after at most
\* five keys.
C40_NoDeadEnd ==
    (app.pc = "wizard" /\ ~app.context.finished) =>
       KeysToFinish(app.state, app.context, 8) <= 5

\* C40 witness: IngredientList with a name typed that the snapshot knows and the
\* context does not hold, from where the strategy needs all five keys
C40_Witness ==
    /\ app.pc = "wizard"
    /\ app.state.tag = "IngredientList"
    /\ app.state.current_input \in DOMAIN app.context.possible_ingredients
    /\ Len(app.context.ingredients) = 1
    /\ KeysToFinish(app.state, app.context, 8) = 5

====
